---------------------------- MODULE Spec2Model ----------------------------
(***************************************************************************)
(* Text utilities of chinda-eval: the Thai script classifier               *)
(* (is_mainly_thai), reasoning-block stripping (strip_thinking_blocks) and *)
(* fenced code extraction (extract_code_block, extract_code_generation).   *)
(* Each has a specification of its own: SpecThai, SpecStrip, SpecCode,     *)
(* SpecGen; SpecTyped calls them with arguments of any type and            *)
(* SpecConcurrent runs several calls at once.  SpecScore is match_score,   *)
(* SpecClient the retrying OpenAI client (wrap_openai_client,              *)
(* chat_completions_create), SpecInference the patched IFEval adapter's    *)
(* run_inference, SpecFind and SpecCsv the report helpers find_json_file   *)
(* and generate_csv.                                                       *)
(*                                                                         *)
(* A text is a sequence of Unicode code points (Python str).  Each         *)
(* function is an operator computed the way the source computes it; a      *)
(* specification draws the arguments of one call in Init and the call      *)
(* action stores the returned value in result.                             *)
(***************************************************************************)
EXTENDS Integers, Sequences, FiniteSets, TLC

VARIABLES
    call,      \* the function being called
    text,      \* its text argument
    language,  \* the language argument of extract_code_block (<<>> otherwise)
    model_type, \* the model_type argument of extract_code_generation ("" otherwise)
    pc,        \* "call" before the function runs, "done" after it returned,
               \* "raised" after it raised an exception
    result,    \* the returned value or the exception raised, NoResult before
    calls,     \* concurrent calls: each one's function, arguments, position
               \* and outcome (<<>> when there is a single call)
    frames,    \* concurrent calls: the local variables of each call
    client,    \* the OpenAI client: what chat.completions.create and
               \* chat.completions._original_create denote
    kwargs,    \* the keyword arguments of the create call in flight
    attempt,   \* the loop variable of chat_completions_create
    sent,      \* the calls made to the collaborator (the SDK's create, the
               \* parent adapter's run_inference), in order, each with its
               \* arguments and its outcome
    args,      \* the arguments of run_inference, find_json_file, generate_csv
    fs         \* the file system: the entries of a directory, the file written

vars == <<call, text, language, model_type, pc, result, calls, frames,
          client, kwargs, attempt, sent, args, fs>>

\* what the text utilities never touch
io_vars == <<client, kwargs, attempt, sent, args, fs>>

\* no client, no request, no file: the state of the text utilities' calls
NoIO ==
    /\ client = <<>>
    /\ kwargs = <<>>
    /\ attempt = 0
    /\ sent = <<>>
    /\ args = <<>>
    /\ fs = <<>>

NoResult == "none"

(***************************************************************************)
(* Bounds of the model.                                                    *)
(***************************************************************************)
\* pieces concatenated into an argument of is_mainly_thai
MaxPieces == 3

\* pieces concatenated into an argument of strip_thinking_blocks
MaxStripPieces == 5

\* pieces concatenated into the text argument of extract_code_block
MaxCodePieces == 3

\* pieces concatenated into the model_output argument of
\* extract_code_generation
MaxGenPieces == 4

\* items of a list argument, pieces of a string argument, of a text
\* utility called with an object
MaxObjSize == 2

\* calls that run concurrently
NumCalls == 2

\* pieces concatenated into a prediction argument of match_score
MaxScorePieces == 2

(***************************************************************************)
(* Sequences of code points.                                               *)
(***************************************************************************)
RECURSIVE Concat(_)
Concat(ss) ==
    IF ss = <<>> THEN <<>> ELSE Head(ss) \o Concat(Tail(ss))

\* every concatenation of at most n pieces
PieceTexts(pieces, n) ==
    { Concat(ps) : ps \in UNION { [1..k -> pieces] : k \in 0..n } }

\* s occurs in t starting at index i (1-based)
MatchAt(t, i, s) ==
    /\ i >= 1
    /\ i + Len(s) - 1 <= Len(t)
    /\ SubSeq(t, i, i + Len(s) - 1) = s

\* the start indices of the occurrences of s in t at or after index from
Occurrences(t, s, from) ==
    { i \in from..(Len(t) - Len(s) + 1) : MatchAt(t, i, s) }

Min(S) == CHOOSE x \in S : \A y \in S : x <= y

Max(S) == CHOOSE x \in S : \A y \in S : x >= y

\* str.isspace(): the characters str.strip() removes and the pattern \s
\* matches
isspace(c) ==
    c \in (9..13) \cup (28..32) \cup (\H2000..\H200A)
                  \cup { \H0085, \H00A0, \H1680, \H2028, \H2029, \H202F,
                         \H205F, \H3000 }

\* str.strip()
RECURSIVE lstrip(_)
lstrip(t) ==
    IF t # <<>> /\ isspace(Head(t)) THEN lstrip(Tail(t)) ELSE t

RECURSIVE rstrip(_)
rstrip(t) ==
    IF t # <<>> /\ isspace(t[Len(t)]) THEN rstrip(SubSeq(t, 1, Len(t) - 1)) ELSE t

strip(t) == rstrip(lstrip(t))

(***************************************************************************)
(* The character tables of is_mainly_thai                                  *)
(* (code_switching_adapter.py, lines 35-136).                              *)
(***************************************************************************)
thai_ranges ==
    { <<\H0E00, \H0E7F>> }

english_ranges ==
    { <<\H0041, \H005A>>, <<\H0061, \H007A>> }

digit_range ==
    <<\H0030, \H0039>>

allowed_block_ranges ==
    { <<\H2200, \H22FF>>,
      <<\H27C0, \H27EF>>,
      <<\H2980, \H29FF>>,
      <<\H00C0, \H00FF>>,
      <<\H0100, \H017F>>,
      <<\H0180, \H024F>>,
      <<\H2000, \H206F>>,
      <<\H2190, \H21FF>>,
      <<\H2900, \H297F>>,
      <<\H2B00, \H2B7F>> }

emoji_ranges ==
    { <<\H1F300, \H1F5FF>>,
      <<\H1F600, \H1F64F>>,
      <<\H1F680, \H1F6FF>>,
      <<\H1F700, \H1F77F>>,
      <<\H1F780, \H1F7FF>>,
      <<\H1F800, \H1F8FF>>,
      <<\H1F900, \H1F9FF>>,
      <<\H1FA00, \H1FA6F>>,
      <<\H1FA70, \H1FAFF>>,
      <<\H2600, \H26FF>>,
      <<\H2700, \H27BF>>,
      <<\H1F1E6, \H1F1FF>>,
      <<\H2300, \H23FF>>,
      <<\H2460, \H24FF>>,
      <<\H25A0, \H25FF>>,
      <<\H2B00, \H2BFF>>,
      <<\HFE00, \HFE0F>>,
      <<\HE0100, \HE01EF>> }

ascii_punctuation ==
    { \H0021, \H0022, \H0023, \H0024, \H0025, \H0026, \H0027, \H0028, \H0029, \H002A,
      \H002B, \H002C, \H002D, \H002E, \H002F, \H003A, \H003B, \H003C, \H003D, \H003E,
      \H003F, \H0040, \H005B, \H005C, \H005D, \H005E, \H005F, \H0060, \H007B, \H007C,
      \H007D, \H007E, \H00AE }

whitespace_chars ==
    { \H0009, \H000A, \H000B, \H000C, \H000D, \H0020 }

hyphens_dashes ==
    { \H2010, \H2011, \H2012, \H2013, \H2014, \H2015 }

zero_width_chars ==
    { \H200B, \H200C, \H200D, \HFEFF }

trademark_symbols ==
    { \H00A9, \H00AE, \H2117, \H2120, \H2122 }

currency_symbols ==
    { \H00A2, \H00A3, \H00A5, \H20A6, \H20A8, \H20A9, \H20AA, \H20AB, \H20AC, \H20AE,
      \H20AF, \H20B0, \H20B1, \H20B2, \H20B3, \H20B4, \H20B5, \H20B8, \H20B9, \H20BA,
      \H20BC, \H20BD, \H20BE, \H20BF }

super_sub_scripts ==
    { \H00B2, \H00B3, \H2070, \H2071, \H2074, \H2075, \H2076, \H2077, \H2078, \H2079,
      \H207A, \H207B, \H207C, \H207D, \H207E, \H207F, \H2080, \H2081, \H2082, \H2083,
      \H2084, \H2085, \H2086, \H2087, \H2088, \H2089, \H208A, \H208B, \H208C, \H208D,
      \H208E }

math_symbols ==
    { \H00B1, \H00BC, \H00BD, \H00BE, \H00D7, \H00F7, \H2151, \H2152, \H2153, \H2154,
      \H2155, \H215B, \H215C, \H215D, \H215E, \H2200, \H2201, \H2202, \H2203, \H2204,
      \H2205, \H2206, \H2207, \H2208, \H2209, \H220A, \H220B, \H220C, \H220F, \H2211,
      \H221A, \H221E, \H222B, \H2248, \H2260, \H2261, \H2264, \H2265 }

CodePoints ==
    { \H0000, \H0001, \H0002, \H0003, \H0004, \H0005, \H0006, \H0007, \H0008, \H0009,
      \H000A, \H000B, \H000C, \H000D, \H000E, \H000F, \H0010, \H0011, \H0012, \H0013,
      \H0014, \H0015, \H0016, \H0017, \H0018, \H0019, \H001A, \H001B, \H001C, \H001D,
      \H001E, \H001F, \H0020, \H0021, \H0022, \H0023, \H0024, \H0025, \H0026, \H0027,
      \H0028, \H0029, \H002A, \H002B, \H002C, \H002D, \H002E, \H002F, \H0030, \H0031,
      \H0032, \H0033, \H0034, \H0035, \H0036, \H0037, \H0038, \H0039, \H003A, \H003B,
      \H003C, \H003D, \H003E, \H003F, \H0040, \H0041, \H0042, \H0043, \H0044, \H0045,
      \H0046, \H0047, \H0048, \H0049, \H004A, \H004B, \H004C, \H004D, \H004E, \H004F,
      \H0050, \H0051, \H0052, \H0053, \H0054, \H0055, \H0056, \H0057, \H0058, \H0059,
      \H005A, \H005B, \H005C, \H005D, \H005E, \H005F, \H0060, \H0061, \H0062, \H0063,
      \H0064, \H0065, \H0066, \H0067, \H0068, \H0069, \H006A, \H006B, \H006C, \H006D,
      \H006E, \H006F, \H0070, \H0071, \H0072, \H0073, \H0074, \H0075, \H0076, \H0077,
      \H0078, \H0079, \H007A, \H007B, \H007C, \H007D, \H007E, \H007F, \H00A2, \H00A3,
      \H00A5, \H00A9, \H00AA, \H00AE, \H00B1, \H00B2, \H00B3, \H00B5, \H00BC, \H00BD,
      \H00BE, \H00BF, \H00C0, \H00D7, \H00E9, \H00F7, \H00FF, \H0100, \H017F, \H0180,
      \H024F, \H0250, \H0378, \H0416, \H044F, \H0483, \H0660, \H0DFF, \H0E00, \H0E01,
      \H0E7F, \H0E80, \H1FFF, \H2000, \H200B, \H200C, \H200D, \H2010, \H2011, \H2012,
      \H2013, \H2014, \H2015, \H206F, \H2070, \H2071, \H2074, \H2075, \H2076, \H2077,
      \H2078, \H2079, \H207A, \H207B, \H207C, \H207D, \H207E, \H207F, \H2080, \H2081,
      \H2082, \H2083, \H2084, \H2085, \H2086, \H2087, \H2088, \H2089, \H208A, \H208B,
      \H208C, \H208D, \H208E, \H20A6, \H20A8, \H20A9, \H20AA, \H20AB, \H20AC, \H20AE,
      \H20AF, \H20B0, \H20B1, \H20B2, \H20B3, \H20B4, \H20B5, \H20B8, \H20B9, \H20BA,
      \H20BC, \H20BD, \H20BE, \H20BF, \H2117, \H2120, \H2122, \H2139, \H2151, \H2152,
      \H2153, \H2154, \H2155, \H215B, \H215C, \H215D, \H215E, \H218F, \H2190, \H21FF,
      \H2200, \H2201, \H2202, \H2203, \H2204, \H2205, \H2206, \H2207, \H2208, \H2209,
      \H220A, \H220B, \H220C, \H220F, \H2211, \H221A, \H221E, \H222B, \H2248, \H2260,
      \H2261, \H2264, \H2265, \H22FF, \H2300, \H23FF, \H2400, \H245F, \H2460, \H24FF,
      \H2500, \H259F, \H25A0, \H25FF, \H2600, \H26FF, \H2700, \H27BF, \H27C0, \H27EF,
      \H27F0, \H28FF, \H2900, \H297F, \H2980, \H29FF, \H2A00, \H2AFF, \H2B00, \H2B7F,
      \H2B80, \H2BFF, \H2C00, \H3001, \H3042, \H4E2D, \HFDFF, \HFE00, \HFE0F, \HFE10,
      \HFEFF, \H10000, \H10001, \H1E030, \H1F1E5, \H1F1E6, \H1F1FF, \H1F200, \H1F2FF, \H1F300,
      \H1F5FF, \H1F600, \H1F60A, \H1F64F, \H1F650, \H1F67F, \H1F680, \H1F6FF, \H1F700, \H1F77F,
      \H1F780, \H1F7FF, \H1F800, \H1F8FF, \H1F900, \H1F9FF, \H1FA00, \H1FA6F, \H1FA70, \H1FAFF,
      \H1FB00, \H20000, \HE00FF, \HE0100, \HE01EF, \HE01F0 }

category_PSMZC ==
    { \H0000, \H0001, \H0002, \H0003, \H0004, \H0005, \H0006, \H0007, \H0008, \H0009,
      \H000A, \H000B, \H000C, \H000D, \H000E, \H000F, \H0010, \H0011, \H0012, \H0013,
      \H0014, \H0015, \H0016, \H0017, \H0018, \H0019, \H001A, \H001B, \H001C, \H001D,
      \H001E, \H001F, \H0020, \H0021, \H0022, \H0023, \H0024, \H0025, \H0026, \H0027,
      \H0028, \H0029, \H002A, \H002B, \H002C, \H002D, \H002E, \H002F, \H003A, \H003B,
      \H003C, \H003D, \H003E, \H003F, \H0040, \H005B, \H005C, \H005D, \H005E, \H005F,
      \H0060, \H007B, \H007C, \H007D, \H007E, \H007F, \H00A2, \H00A3, \H00A5, \H00A9,
      \H00AE, \H00B1, \H00BF, \H00D7, \H00F7, \H0378, \H0483, \H0DFF, \H0E00, \H0E7F,
      \H0E80, \H1FFF, \H2000, \H200B, \H200C, \H200D, \H2010, \H2011, \H2012, \H2013,
      \H2014, \H2015, \H206F, \H207A, \H207B, \H207C, \H207D, \H207E, \H208A, \H208B,
      \H208C, \H208D, \H208E, \H20A6, \H20A8, \H20A9, \H20AA, \H20AB, \H20AC, \H20AE,
      \H20AF, \H20B0, \H20B1, \H20B2, \H20B3, \H20B4, \H20B5, \H20B8, \H20B9, \H20BA,
      \H20BC, \H20BD, \H20BE, \H20BF, \H2117, \H2120, \H2122, \H218F, \H2190, \H21FF,
      \H2200, \H2201, \H2202, \H2203, \H2204, \H2205, \H2206, \H2207, \H2208, \H2209,
      \H220A, \H220B, \H220C, \H220F, \H2211, \H221A, \H221E, \H222B, \H2248, \H2260,
      \H2261, \H2264, \H2265, \H22FF, \H2300, \H23FF, \H2400, \H245F, \H2500, \H259F,
      \H25A0, \H25FF, \H2600, \H26FF, \H2700, \H27BF, \H27C0, \H27EF, \H27F0, \H28FF,
      \H2900, \H297F, \H2980, \H29FF, \H2A00, \H2AFF, \H2B00, \H2B7F, \H2B80, \H2BFF,
      \H3001, \HFDFF, \HFE00, \HFE0F, \HFE10, \HFEFF, \H1E030, \H1F1E5, \H1F1E6, \H1F1FF,
      \H1F200, \H1F2FF, \H1F300, \H1F5FF, \H1F600, \H1F60A, \H1F64F, \H1F650, \H1F67F, \H1F680,
      \H1F6FF, \H1F700, \H1F77F, \H1F780, \H1F7FF, \H1F800, \H1F8FF, \H1F900, \H1F9FF, \H1FA00,
      \H1FA6F, \H1FA70, \H1FAFF, \H1FB00, \HE00FF, \HE0100, \HE01EF, \HE01F0 }
InRanges(c, ranges) ==
    \E r \in ranges : r[1] <= c /\ c <= r[2]

\* variant: every printable ASCII character added as a symbol
allowed_symbols_all_ascii(c) ==
    \/ c \in 32..126
    \/ InRanges(c, allowed_block_ranges \cup emoji_ranges)

\* the set allowed_symbols once lines 50-136 have filled it
allowed_symbols(c) ==
    \/ c \in ascii_punctuation \cup whitespace_chars \cup hyphens_dashes
    \/ c \in zero_width_chars \cup trademark_symbols \cup currency_symbols
    \/ c \in super_sub_scripts \cup math_symbols
    \/ InRanges(c, allowed_block_ranges \cup emoji_ranges)

\* variant: the threshold written 0x1000
fallback_neutral_above_1000(c) ==
    c \in category_PSMZC \/ c > \H1000

\* lines 167-178: unicodedata.category(char) starts with P, S, M, Z or C,
\* or the code point is above 0x10000
fallback_neutral(c) ==
    c \in category_PSMZC \/ c > \H10000

\* the class the loop body (lines 143-181) gives one character: the tests
\* are made in the order Thai, digit, allowed symbol, English, fallback
char_class(c) ==
    IF InRanges(c, thai_ranges) THEN "thai"
    ELSE IF digit_range[1] <= c /\ c <= digit_range[2] THEN "digit"
    ELSE IF allowed_symbols(c) THEN "allowed"
    ELSE IF InRanges(c, english_ranges) THEN "english"
    ELSE IF fallback_neutral(c) THEN "neutral"
    ELSE "other"

\* '</think>'
close_think == <<60, 47, 116, 104, 105, 110, 107, 62>>

\* variant: the greedy pattern '^.*</think>', through the last '</think>'
sub_think_prefix_greedy(response) ==
    LET ends == Occurrences(response, close_think, 1)
    IN  IF ends = {} THEN response
        ELSE SubSeq(response, Max(ends) + Len(close_think), Len(response))

\* line 33: re.sub(r'^.*?</think>', '', response, flags=re.DOTALL).  The
\* pattern is anchored at the start and lazy: it matches through the first
\* '</think>' and, being anchored, matches at most once.
sub_think_prefix(response) ==
    LET ends == Occurrences(response, close_think, 1)
    IN  IF ends = {} THEN response
        ELSE SubSeq(response, Min(ends) + Len(close_think), Len(response))

\* lines 138-181: the loop over the characters, from index i on, with the
\* counters and the set other_chars in acc
RECURSIVE scan_chars(_, _, _)
scan_chars(response, i, acc) ==
    IF i > Len(response) THEN acc
    ELSE LET cls == char_class(response[i])
         IN  scan_chars(response, i + 1,
                 CASE cls = "thai" ->
                        [acc EXCEPT !.thai_count = @ + 1]
                   [] cls = "english" ->
                        [acc EXCEPT !.english_count = @ + 1]
                   [] cls = "other" ->
                        [acc EXCEPT !.other_chars = @ \cup {response[i]}]
                   [] OTHER -> acc)

\* variant: a tie of the two counts returns False
verdict_tie_false(acc) ==
    IF acc.other_chars # {} THEN FALSE
    ELSE IF acc.english_count >= acc.thai_count THEN FALSE
    ELSE TRUE

\* lines 183-194: the verdict from the counters
verdict(acc) ==
    IF acc.other_chars # {} THEN FALSE
    ELSE IF acc.english_count > acc.thai_count THEN FALSE
    ELSE TRUE

\* lines 138-194 on a text that is classified as it stands
classify_text(response) ==
    verdict(scan_chars(response, 1,
        [thai_count |-> 0, english_count |-> 0, other_chars |-> {}]))

is_mainly_thai(response) ==
    classify_text(sub_think_prefix(response))

(***************************************************************************)
(* Calls of is_mainly_thai.  The argument is any concatenation of at most  *)
(* MaxPieces pieces, or a single code point of CodePoints.                 *)
(***************************************************************************)
ThaiPieces ==
    { <<\H0E01>>,      \* Thai ko kai
      <<97>>,          \* a
      <<48>>,          \* 0
      <<32>>,          \* space
      <<60>>,          \* <
      <<\H00E9>>,      \* e with acute
      <<\H1F60A>>,     \* smiling face emoji
      <<\H2139>>,      \* information source emoji (category Ll)
      <<\H0416>>,      \* Cyrillic capital zhe (Lu)
      <<\H0483>>,      \* combining Cyrillic titlo (Mn)
      <<\H4E2D>>,      \* CJK ideograph (Lo)
      <<\H20000>>,     \* CJK Extension B ideograph (Lo)
      <<47, 116, 104, 105, 110, 107, 62>>,   \* /think>
      close_think }

ThaiInputs ==
    PieceTexts(ThaiPieces, MaxPieces) \cup { <<c>> : c \in CodePoints }

InitThai ==
    /\ call = "is_mainly_thai"
    /\ text \in ThaiInputs
    /\ language = <<>>
    /\ model_type = ""
    /\ pc = "call"
    /\ result = NoResult
    /\ calls = <<>>
    /\ frames = <<>>
    /\ NoIO

CallIsMainlyThai ==
    /\ pc = "call"
    /\ call = "is_mainly_thai"
    /\ result' = is_mainly_thai(text)
    /\ pc' = "done"
    /\ UNCHANGED <<call, text, language, model_type, calls, frames, io_vars>>

NextThai == CallIsMainlyThai

SpecThai == InitThai /\ [][NextThai]_vars

(***************************************************************************)
(* Properties of is_mainly_thai.                                           *)
(***************************************************************************)
IsThaiBlock(c) == c \in \H0E00..\H0E7F

IsAsciiLatin(c) == c \in (65..90) \cup (97..122)

IsAsciiDigit(c) == c \in 48..57

IsAsciiPunctuation(c) == c \in (33..47) \cup (58..64) \cup (91..96) \cup (123..126)

\* code points of CodePoints that have the Unicode property Emoji
Emoji == { \H00A9, \H00AE, \H2122, \H2139, \H1F60A }

IsOtherChar(c) ==
    ~ \/ IsThaiBlock(c)
      \/ IsAsciiDigit(c)
      \/ allowed_symbols(c)
      \/ IsAsciiLatin(c)
      \/ fallback_neutral(c)

CountThai(t) == Cardinality({ i \in DOMAIN t : IsThaiBlock(t[i]) })

CountLatin(t) == Cardinality({ i \in DOMAIN t : IsAsciiLatin(t[i]) })

HasCloseThink(t) == Occurrences(t, close_think, 1) # {}

Returned == pc = "done"

\* C1: is_mainly_thai returns True exactly when the text left after the
\* reasoning prefix is stripped has no character of class other and has at
\* most as many ASCII Latin letters as Thai-block characters (a tie is True).
C1_DecisionRule ==
    (Returned /\ call = "is_mainly_thai") =>
        LET r == sub_think_prefix(text)
        IN  result = ( /\ \A i \in DOMAIN r : ~IsOtherChar(r[i])
                       /\ CountLatin(r) <= CountThai(r) )

\* a call that returned True on a tie of one Thai and one Latin letter or more
C1_TieReturnsTrue ==
    /\ Returned /\ call = "is_mainly_thai"
    /\ CountThai(sub_think_prefix(text)) >= 1
    /\ CountLatin(sub_think_prefix(text)) = CountThai(sub_think_prefix(text))
    /\ result = TRUE

\* Unicode blocks of the Cyrillic script and of the CJK scripts
CyrillicBlocks ==
    { <<\H0400, \H04FF>>, <<\H0500, \H052F>>, <<\H1C80, \H1C8F>>,
      <<\H2DE0, \H2DFF>>, <<\HA640, \HA69F>>, <<\H1E030, \H1E08F>> }

CJKBlocks ==
    { <<\H2E80, \H2FDF>>, <<\H3000, \H303F>>, <<\H3040, \H30FF>>,
      <<\H3400, \H4DBF>>, <<\H4E00, \H9FFF>>, <<\HF900, \HFAFF>>,
      <<\H20000, \H2A6DF>>, <<\H2A700, \H2EBEF>>, <<\H30000, \H3134F>> }

IsCyrillicOrCJK(c) == InRanges(c, CyrillicBlocks \cup CJKBlocks)

\* t is all Thai except for the Cyrillic or CJK character at index i
AllThaiButOne(t, i) ==
    /\ i \in DOMAIN t
    /\ IsCyrillicOrCJK(t[i])
    /\ \A j \in DOMAIN t : j # i => IsThaiBlock(t[j])

\* a letter or number of the Basic Multilingual Plane: not above U+10000 and
\* of no general category P, S, M, Z or C
IsBmpLetterOrNumber(c) == c <= \H10000 /\ c \notin category_PSMZC

\* C2 as stated: one Cyrillic or CJK character anywhere in otherwise Thai
\* text makes is_mainly_thai return False, for every such code point, of
\* the Basic Multilingual Plane and of the supplementary planes.
C2_AnyForeignCharRejected ==
    (Returned /\ call = "is_mainly_thai") =>
        \A i \in DOMAIN text : AllThaiButOne(text, i) => result = FALSE

\* C2 (amended): one Cyrillic or CJK letter or number at or below U+10000
\* anywhere in otherwise Thai text makes is_mainly_thai return False,
\* whatever the number of Thai characters.
C2_BmpForeignLetterRejected ==
    (Returned /\ call = "is_mainly_thai") =>
        \A i \in DOMAIN text :
            (AllThaiButOne(text, i) /\ IsBmpLetterOrNumber(text[i]))
                => result = FALSE

\* two Thai characters and one Cyrillic or CJK letter, returned False
C2_ForeignLetterAmidThai ==
    /\ Returned /\ call = "is_mainly_thai"
    /\ Len(text) = 3
    /\ AllThaiButOne(text, 2)
    /\ IsBmpLetterOrNumber(text[2])
    /\ result = FALSE

\* the characters C3 calls neutral: ASCII digits, punctuation, whitespace,
\* emoji
C3Neutral(c) ==
    \/ IsAsciiDigit(c)
    \/ IsAsciiPunctuation(c)
    \/ isspace(c)
    \/ c \in Emoji

\* C3: is_mainly_thai returns True for the empty string, for every text of
\* neutral characters only, and for every text that ends with '</think>'
\* so that the remainder to classify is empty.
C3_NeutralTextsAreThai ==
    (Returned /\ call = "is_mainly_thai") =>
        /\ text = <<>> => result = TRUE
        /\ (\A i \in DOMAIN text : C3Neutral(text[i])) => result = TRUE
        /\ Occurrences(text, close_think, 1) = { Len(text) - Len(close_think) + 1 }
               => result = TRUE

\* C4: when p holds no '</think>', is_mainly_thai(p + '</think>' + r) is the
\* decision rule applied to r as it stands: the prefix through the first
\* closing delimiter is discarded, r is not stripped again.
C4_PrefixDiscarded ==
    (Returned /\ call = "is_mainly_thai") =>
        \A k \in Occurrences(text, close_think, 1) :
            ~HasCloseThink(SubSeq(text, 1, k - 1)) =>
                result = classify_text(
                    SubSeq(text, k + Len(close_think), Len(text)))

\* a prefix with a Latin or foreign character was discarded and the rest,
\* which holds a Thai character, was classified True
C4_ForeignPrefixIgnored ==
    /\ Returned /\ call = "is_mainly_thai"
    /\ \E k \in Occurrences(text, close_think, 1) :
           /\ ~HasCloseThink(SubSeq(text, 1, k - 1))
           /\ \E i \in 1..(k - 1) : char_class(text[i]) \in {"english", "other"}
           /\ CountThai(SubSeq(text, k + Len(close_think), Len(text))) >= 1
    /\ result = TRUE

\* the characters C5 calls neutral: an ASCII digit, ASCII punctuation or
\* whitespace, an emoji, an accented Latin letter of U+00C0..U+024F
C5Neutral(c) ==
    \/ IsAsciiDigit(c)
    \/ IsAsciiPunctuation(c)
    \/ c \in {9, 10, 13, 32}
    \/ c \in Emoji
    \/ c \in \H00C0..\H024F

Insert(t, c, p) == SubSeq(t, 1, p) \o <<c>> \o SubSeq(t, p + 1, Len(t))

\* C5: inserting a neutral character at any position of a text leaves the
\* result of is_mainly_thai unchanged, when neither the text nor the result
\* of the insertion contains '</think>'.
C5_NeutralInsertion ==
    (Returned /\ call = "is_mainly_thai" /\ ~HasCloseThink(text)) =>
        \A c \in { x \in CodePoints : C5Neutral(x) } :
            \A p \in 0..Len(text) :
                ~HasCloseThink(Insert(text, c, p)) =>
                    is_mainly_thai(Insert(text, c, p)) = result

ExplicitSets == {"thai", "english", "digit", "allowed"}

InExplicitSet(name, c) ==
    CASE name = "thai" -> InRanges(c, thai_ranges)
      [] name = "english" -> InRanges(c, english_ranges)
      [] name = "digit" -> digit_range[1] <= c /\ c <= digit_range[2]
      [] name = "allowed" -> allowed_symbols(c)

\* the class of a character when the explicit sets are tested in the given
\* order: member[n] tells whether it is in set n, rest is its class when it
\* is in none
RECURSIVE ClassInOrder(_, _, _)
ClassInOrder(order, member, rest) ==
    IF order = <<>> THEN rest
    ELSE IF member[Head(order)] THEN Head(order)
    ELSE ClassInOrder(Tail(order), member, rest)

\* C6: the classification is a partition: no code point is in two of the
\* explicit sets Thai, Latin, Digit, AllowedSymbol, so every order of the
\* tests gives each character the class the loop gives it.
C6_ClassesDisjoint ==
    (Returned /\ call = "is_mainly_thai") =>
        \A c \in { text[i] : i \in DOMAIN text } :
            LET member == [n \in ExplicitSets |-> InExplicitSet(n, c)]
                rest == IF fallback_neutral(c) THEN "neutral" ELSE "other"
                class == char_class(c)
            IN  /\ Cardinality({ n \in ExplicitSets : member[n] }) <= 1
                /\ \A n1 \in ExplicitSets :
                   \A n2 \in ExplicitSets \ {n1} :
                   \A n3 \in ExplicitSets \ {n1, n2} :
                   \A n4 \in ExplicitSets \ {n1, n2, n3} :
                       ClassInOrder(<<n1, n2, n3, n4>>, member, rest) = class

\* a classified text with a Thai character, a Latin letter and an allowed
\* symbol
C6_ThreeClassesScanned ==
    /\ Returned /\ call = "is_mainly_thai"
    /\ { char_class(text[i]) : i \in DOMAIN text } = {"thai", "english", "allowed"}

(***************************************************************************)
(* strip_thinking_blocks (benchmarks/utils.py, lines 8-31; the copy in     *)
(* live_code_bench/extract_utils.py, lines 6-14, has the same body).       *)
(***************************************************************************)
think_open == <<60, 116, 104, 105, 110, 107, 62>>

think_close == <<60, 47, 116, 104, 105, 110, 107, 62>>

thinking_open == <<60, 116, 104, 105, 110, 107, 105, 110, 103, 62>>

thinking_close == <<60, 47, 116, 104, 105, 110, 107, 105, 110, 103, 62>>

\* re.sub(open + '.*?' + close, '', t, flags=re.DOTALL) from index pos on:
\* the leftmost start tag that has an end tag after it is matched through
\* the first such end tag, the match is dropped and the scan goes on behind it
RECURSIVE sub_block(_, _, _, _)
sub_block(t, open, close, pos) ==
    LET starts == { i \in Occurrences(t, open, pos) :
                        Occurrences(t, close, i + Len(open)) # {} }
    IN  IF starts = {} THEN SubSeq(t, pos, Len(t))
        ELSE LET i == Min(starts)
                 j == Min(Occurrences(t, close, i + Len(open)))
             IN  SubSeq(t, pos, i - 1) \o sub_block(t, open, close, j + Len(close))

\* variant: a start tag with no end tag is matched through the end of the
\* text
RECURSIVE sub_block_or_rest(_, _, _, _)
sub_block_or_rest(t, open, close, pos) ==
    LET starts == Occurrences(t, open, pos)
    IN  IF starts = {} THEN SubSeq(t, pos, Len(t))
        ELSE LET i == Min(starts)
                 ends == Occurrences(t, close, i + Len(open))
             IN  SubSeq(t, pos, i - 1) \o
                 (IF ends = {} THEN <<>>
                  ELSE sub_block_or_rest(t, open, close, Min(ends) + Len(close)))

\* variant: only the <think> spelling is removed
strip_thinking_blocks_first_spelling(t) ==
    IF t = <<>> THEN t
    ELSE strip(sub_block(t, think_open, think_close, 1))

\* variant: unterminated blocks are removed too
strip_thinking_blocks_to_end(t) ==
    IF t = <<>> THEN t
    ELSE strip(sub_block_or_rest(
                   sub_block_or_rest(t, think_open, think_close, 1),
                   thinking_open, thinking_close, 1))

\* lines 21-31
strip_thinking_blocks(t) ==
    IF t = <<>> THEN t
    ELSE strip(sub_block(sub_block(t, think_open, think_close, 1),
                         thinking_open, thinking_close, 1))

(***************************************************************************)
(* Calls of strip_thinking_blocks.  The argument is any concatenation of   *)
(* at most MaxStripPieces pieces, or two blocks, one of each spelling,     *)
(* with text of StripContents before, in, between and after them.          *)
(***************************************************************************)
StripPieces ==
    { think_open, think_close, thinking_open, thinking_close,
      <<60, 116, 104, 105>>,   \* <thi
      <<110, 107, 62>>,        \* nk>
      <<32, 97>> }             \* space a

StripContents ==
    { <<>>,
      <<32, 97>>,                            \* space a
      <<97, 10>>,                            \* a newline
      <<47, 116, 104, 105, 110, 107, 62>> }  \* /think>

TwoBlockTexts ==
    { A \o think_open \o X \o think_close \o B
        \o thinking_open \o Y \o thinking_close \o C :
      <<A, X, B, Y, C>> \in
          StripContents \X StripContents \X StripContents
              \X StripContents \X StripContents }

StripInputs == PieceTexts(StripPieces, MaxStripPieces) \cup TwoBlockTexts

InitStrip ==
    /\ call = "strip_thinking_blocks"
    /\ text \in StripInputs
    /\ language = <<>>
    /\ model_type = ""
    /\ pc = "call"
    /\ result = NoResult
    /\ calls = <<>>
    /\ frames = <<>>
    /\ NoIO

CallStripThinkingBlocks ==
    /\ pc = "call"
    /\ call = "strip_thinking_blocks"
    /\ result' = strip_thinking_blocks(text)
    /\ pc' = "done"
    /\ UNCHANGED <<call, text, language, model_type, calls, frames, io_vars>>

NextStrip == CallStripThinkingBlocks

SpecStrip == InitStrip /\ [][NextStrip]_vars

(***************************************************************************)
(* Properties of strip_thinking_blocks.                                    *)
(***************************************************************************)
\* t without its leading and trailing whitespace
Trimmed(t) ==
    LET keep == { i \in DOMAIN t : ~isspace(t[i]) }
    IN  IF keep = {} THEN <<>> ELSE SubSeq(t, Min(keep), Max(keep))

NoLessThan(t) == \A i \in DOMAIN t : t[i] # 60

IsSuffix(s, t) ==
    Len(s) <= Len(t) /\ SubSeq(t, Len(t) - Len(s) + 1, Len(t)) = s

StartTags(t) ==
    Occurrences(t, think_open, 1) \cup Occurrences(t, thinking_open, 1)

HasTag(t) ==
    \E tag \in {think_open, think_close, thinking_open, thinking_close} :
        Occurrences(t, tag, 1) # {}

\* C7: strip_thinking_blocks is idempotent on every string.
C7_Idempotent ==
    (Returned /\ call = "strip_thinking_blocks") =>
        strip_thinking_blocks(result) = result

\* C8: for A, X, B, Y, C without '<',
\* strip_thinking_blocks(A <think> X </think> B <thinking> Y </thinking> C)
\* is A B C with the surrounding whitespace trimmed.
C8_BothSpellingsRemoved ==
    (Returned /\ call = "strip_thinking_blocks") =>
        \A i \in Occurrences(text, think_open, 1) :
        \A j \in Occurrences(text, think_close, i + Len(think_open)) :
        \A k \in Occurrences(text, thinking_open, j + Len(think_close)) :
        \A l \in Occurrences(text, thinking_close, k + Len(thinking_open)) :
            LET A == SubSeq(text, 1, i - 1)
                X == SubSeq(text, i + Len(think_open), j - 1)
                B == SubSeq(text, j + Len(think_close), k - 1)
                Y == SubSeq(text, k + Len(thinking_open), l - 1)
                C == SubSeq(text, l + Len(thinking_close), Len(text))
            IN  (NoLessThan(A) /\ NoLessThan(X) /\ NoLessThan(B)
                    /\ NoLessThan(Y) /\ NoLessThan(C))
                => result = Trimmed(A \o B \o C)

\* two blocks with text in them were removed, the text between and around
\* them was kept and whitespace was trimmed at both ends
C8_TwoBlocksStripped ==
    /\ Returned /\ call = "strip_thinking_blocks"
    /\ text \in TwoBlockTexts
    /\ isspace(text[1]) /\ isspace(text[Len(text)])
    /\ \E i \in DOMAIN result : result[i] = 10
    /\ Len(result) = 4

\* C9 as stated: a text without reasoning tags is returned with only the
\* surrounding whitespace trimmed, and a start tag with no later end tag of
\* the same spelling is left in place with all the text after it.
C9_UnterminatedLeftInPlace ==
    (Returned /\ call = "strip_thinking_blocks") =>
        /\ ~HasTag(text) => result = Trimmed(text)
        /\ \A i \in Occurrences(text, think_open, 1) :
               Occurrences(text, think_close, i) = {}
                   => IsSuffix(rstrip(SubSeq(text, i, Len(text))), result)
        /\ \A i \in Occurrences(text, thinking_open, 1) :
               Occurrences(text, thinking_close, i) = {}
                   => IsSuffix(rstrip(SubSeq(text, i, Len(text))), result)

\* C9 (amended): a text without reasoning tags is returned with only the
\* surrounding whitespace trimmed, and a start tag with no later end tag of
\* either spelling is left in place with all the text after it, trailing
\* whitespace apart.
C9_UnterminatedWithNoEndTagLeftInPlace ==
    (Returned /\ call = "strip_thinking_blocks") =>
        /\ ~HasTag(text) => result = Trimmed(text)
        /\ \A i \in StartTags(text) :
               (/\ Occurrences(text, think_close, i) = {}
                /\ Occurrences(text, thinking_close, i) = {})
                   => IsSuffix(rstrip(SubSeq(text, i, Len(text))), result)

\* a block was removed in front of a start tag that has no end tag behind
\* it, and that start tag and the text after it were returned
C9_UnterminatedAfterBlock ==
    /\ Returned /\ call = "strip_thinking_blocks"
    /\ \E i \in StartTags(text) :
           /\ Occurrences(text, think_close, i) = {}
           /\ Occurrences(text, thinking_close, i) = {}
           /\ i > 1
           /\ Len(SubSeq(text, i, Len(text))) > Len(thinking_open)
           /\ result = SubSeq(text, i, Len(text))

(***************************************************************************)
(* extract_code_block (benchmarks/utils.py, lines 34-84).                  *)
(***************************************************************************)
fence == <<96, 96, 96>>

\* str.lower() on ASCII letters
lower(s) ==
    [i \in DOMAIN s |-> IF s[i] \in 65..90 THEN s[i] + 32 ELSE s[i]]

\* the end of the match of '```' + tag + '\s*\n' that starts at index i and
\* can be followed by '(.*?)```': the index of the newline, 0 when there is
\* no match at i.  \s* is greedy, so the newline is the last one of the
\* whitespace after the tag that still has a fence behind it.
header_end(t, tag, i) ==
    LET a == i + Len(fence) + Len(tag)
        newlines == { q \in a..Len(t) :
                        /\ t[q] = 10
                        /\ \A k \in a..q : isspace(t[k])
                        /\ Occurrences(t, fence, q + 1) # {} }
    IN  IF MatchAt(t, i, fence \o tag) /\ newlines # {} THEN Max(newlines) ELSE 0

\* re.findall('```' + tag + '\s*\n(.*?)```', t, re.DOTALL) from index pos
\* on: the groups of the successive leftmost matches
RECURSIVE findall_blocks(_, _, _)
findall_blocks(t, tag, pos) ==
    LET starts == { i \in pos..Len(t) : header_end(t, tag, i) # 0 }
    IN  IF starts = {} THEN <<>>
        ELSE LET i == Min(starts)
                 q == header_end(t, tag, i)
                 f == Min(Occurrences(t, fence, q + 1))
             IN  <<SubSeq(t, q + 1, f - 1)>>
                     \o findall_blocks(t, tag, f + Len(fence))

InSeq(x, s) == \E i \in DOMAIN s : s[i] = x

\* variant: the matches are appended as found, untrimmed
RECURSIVE append_non_blank_untrimmed(_, _)
append_non_blank_untrimmed(blocks, matches) ==
    IF matches = <<>> THEN blocks
    ELSE append_non_blank_untrimmed(
             IF strip(Head(matches)) # <<>>
             THEN Append(blocks, Head(matches)) ELSE blocks,
             Tail(matches))

\* lines 58-60 and 74-76: append the stripped matches that are not blank
RECURSIVE append_non_blank(_, _)
append_non_blank(blocks, matches) ==
    IF matches = <<>> THEN blocks
    ELSE append_non_blank(
             IF strip(Head(matches)) # <<>>
             THEN Append(blocks, strip(Head(matches))) ELSE blocks,
             Tail(matches))

\* lines 66-68: the same, leaving out a block that is already listed
RECURSIVE append_new_non_blank(_, _)
append_new_non_blank(blocks, matches) ==
    IF matches = <<>> THEN blocks
    ELSE append_new_non_blank(
             IF strip(Head(matches)) # <<>> /\ ~InSeq(strip(Head(matches)), blocks)
             THEN Append(blocks, strip(Head(matches))) ELSE blocks,
             Tail(matches))

\* max(all_code_blocks, key=len): the first block of the greatest length
longest(blocks) ==
    LET best == Max({ Len(blocks[i]) : i \in DOMAIN blocks })
    IN  blocks[Min({ i \in DOMAIN blocks : Len(blocks[i]) = best })]

\* lines 55-68: the blocks tagged with the language
language_blocks(t, lang) ==
    LET tagged == append_non_blank(<<>>, findall_blocks(t, lang, 1))
    IN  IF lower(lang) # lang
        THEN append_new_non_blank(tagged, findall_blocks(t, lower(lang), 1))
        ELSE tagged

\* variant: with no block found the text is returned as it was given
extract_code_block_unstripped(txt, lang) ==
    IF txt = <<>> THEN txt
    ELSE LET t == strip_thinking_blocks(txt)
             tagged == language_blocks(t, lang)
             all_code_blocks ==
                 IF tagged = <<>>
                 THEN append_non_blank(<<>>, findall_blocks(t, <<>>, 1))
                 ELSE tagged
         IN  IF all_code_blocks # <<>> THEN longest(all_code_blocks) ELSE txt

\* lines 46-84
extract_code_block(txt, lang) ==
    IF txt = <<>> THEN txt
    ELSE LET t == strip_thinking_blocks(txt)
             tagged == language_blocks(t, lang)
             all_code_blocks ==
                 IF tagged = <<>>
                 THEN append_non_blank(<<>>, findall_blocks(t, <<>>, 1))
                 ELSE tagged
         IN  IF all_code_blocks # <<>> THEN longest(all_code_blocks) ELSE t

(***************************************************************************)
(* Calls of extract_code_block.  The text is any concatenation of at most  *)
(* MaxCodePieces pieces: whole fenced blocks, opening lines, fences and    *)
(* prose.  The language is 'python' or 'Python'.                           *)
(***************************************************************************)
python == <<112, 121, 116, 104, 111, 110>>

Python == <<80, 121, 116, 104, 111, 110>>

\* ```tag newline content newline ``` newline
Block(tag, content) ==
    fence \o tag \o <<10>> \o content \o <<10>> \o fence \o <<10>>

CodePieces ==
    { Block(tag, content) :
          tag \in {<<>>, python, Python},
          content \in { <<120>>, <<121, 32, 121>> } }      \* x, y y
    \cup { fence,
           fence \o python \o <<10>>,
           <<10>>,
           <<112, 32>>,                                   \* p space
           think_open \o <<97>> \o think_close }          \* <think>a</think>

Languages == { python, Python }

InitCode ==
    /\ call = "extract_code_block"
    /\ text \in PieceTexts(CodePieces, MaxCodePieces)
    /\ language \in Languages
    /\ model_type = ""
    /\ pc = "call"
    /\ result = NoResult
    /\ calls = <<>>
    /\ frames = <<>>
    /\ NoIO

CallExtractCodeBlock ==
    /\ pc = "call"
    /\ call = "extract_code_block"
    /\ result' = extract_code_block(text, language)
    /\ pc' = "done"
    /\ UNCHANGED <<call, text, language, model_type, calls, frames, io_vars>>

NextCode == CallExtractCodeBlock

SpecCode == InitCode /\ [][NextCode]_vars

(***************************************************************************)
(* Properties of extract_code_block.                                       *)
(***************************************************************************)
\* the fences of t in order of appearance, from index pos on
RECURSIVE FenceSeq(_, _)
FenceSeq(t, pos) ==
    LET found == Occurrences(t, fence, pos)
    IN  IF found = {} THEN <<>>
        ELSE <<Min(found)>> \o FenceSeq(t, Min(found) + Len(fence))

\* the fenced blocks of t: the first fence opens, the second closes, the
\* third opens, ...; a block is <<index of its opening fence, index of its
\* closing fence>>
FencedBlocks(t) ==
    LET f == FenceSeq(t, 1)
    IN  { <<f[2 * k - 1], f[2 * k]>> : k \in 1..(Len(f) \div 2) }

BlockBody(t, b) == SubSeq(t, b[1] + Len(fence), b[2] - 1)

\* the tag of a block: what its opening line holds behind the fence
BlockTag(t, b) ==
    LET body == BlockBody(t, b)
        newlines == { i \in DOMAIN body : body[i] = 10 }
    IN  IF newlines = {} THEN strip(body)
        ELSE strip(SubSeq(body, 1, Min(newlines) - 1))

\* the content of a block: what follows its opening line
BlockContent(t, b) ==
    LET body == BlockBody(t, b)
        newlines == { i \in DOMAIN body : body[i] = 10 }
    IN  IF newlines = {} THEN <<>>
        ELSE SubSeq(body, Min(newlines) + 1, Len(body))

\* the trimmed contents of the non-blank blocks whose tag is one of tags
TaggedContents(t, tags) ==
    { strip(BlockContent(t, b)) :
          b \in { x \in FencedBlocks(t) : BlockTag(t, x) \in tags } } \ { <<>> }

\* C10: when the stripped text has a non-blank fenced block tagged with the
\* preferred language, in its given spelling or its case variant ('python'
\* or 'Python' for language 'python'), extract_code_block returns the
\* trimmed content of such a block, even when another block is longer.
C10_PreferredLanguageFirst ==
    (Returned /\ call = "extract_code_block") =>
        LET tagged == TaggedContents(strip_thinking_blocks(text), {python, Python})
        IN  tagged # {} => result \in tagged

\* the blocks that qualify: those tagged with the preferred language in
\* either case when one of them is not blank, every fenced block otherwise
PreferredTags == { python, Python }

NonBlank(t, bs) == { b \in bs : strip(BlockContent(t, b)) # <<>> }

QualifyingBlocks(t) ==
    LET tagged == NonBlank(t, { b \in FencedBlocks(t) : BlockTag(t, b) \in PreferredTags })
    IN  IF tagged # {} THEN tagged ELSE NonBlank(t, FencedBlocks(t))

\* C11: when the stripped text has several qualifying fenced blocks,
\* extract_code_block returns the trimmed content of one of them, and no
\* qualifying block has a longer trimmed content; two untagged blocks of
\* different length give the longer one in either order.
C11_LongestQualifyingBlock ==
    (Returned /\ call = "extract_code_block") =>
        LET t == strip_thinking_blocks(text)
            q == QualifyingBlocks(t)
        IN  Cardinality(q) >= 2 =>
                /\ \E b \in q : result = strip(BlockContent(t, b))
                /\ \A b \in q : Len(strip(BlockContent(t, b))) <= Len(result)


OneBlockText(t, lang) ==
    LET f == FenceSeq(t, 1)
    IN  /\ Len(f) = 2
        /\ \E i \in (f[1] + Len(fence))..(f[2] - 1) : t[i] = 10
        /\ BlockTag(t, <<f[1], f[2]>>) \in { <<>>, lang }
        /\ ~HasTag(SubSeq(t, 1, f[1] - 1))
        /\ ~HasTag(SubSeq(t, f[2] + Len(fence), Len(t)))

\* the string S inside the one block of t
OneBlockS(t) ==
    LET f == FenceSeq(t, 1) IN BlockContent(t, <<f[1], f[2]>>)

Return(v) == [kind |-> "return", value |-> v]

Raise(e) == [kind |-> "raise", value |-> e]

\* str.split('\n'): the lines of t, the last one being what follows the
\* last newline
RECURSIVE split_lines(_)
split_lines(t) ==
    LET newlines == { i \in DOMAIN t : t[i] = 10 }
    IN  IF newlines = {} THEN <<t>>
        ELSE <<SubSeq(t, 1, Min(newlines) - 1)>>
                 \o split_lines(SubSeq(t, Min(newlines) + 1, Len(t)))

\* '\n'.join(lines[a:b]) for the line numbers a..b of the model, which
\* counts lines from 1
RECURSIVE join_lines(_, _, _)
join_lines(lines, a, b) ==
    IF a > b THEN <<>>
    ELSE IF a = b THEN lines[a]
    ELSE lines[a] \o <<10>> \o join_lines(lines, a + 1, b)

\* '```' in line
has_fence(line) == Occurrences(line, fence, 1) # {}

\* line 28: the numbers of the lines that hold a fence, in increasing order
RECURSIVE fence_lines(_, _)
fence_lines(lines, from) ==
    LET found == { i \in from..Len(lines) : has_fence(lines[i]) }
    IN  IF found = {} THEN <<>>
        ELSE <<Min(found)>> \o fence_lines(lines, Min(found) + 1)

\* variant: the loop moves on by one fence line, so that a closing fence
\* opens the next pair
RECURSIVE collect_code_blocks_sliding(_, _, _, _)
collect_code_blocks_sliding(outputlines, indexlines, i, all_code_blocks) ==
    IF ~(i < Len(indexlines)) THEN all_code_blocks
    ELSE LET start == indexlines[i]
             end == indexlines[i + 1]
             code_block == join_lines(outputlines, start + 1, end - 1)
         IN  collect_code_blocks_sliding(
                 outputlines, indexlines, i + 1,
                 IF strip(code_block) # <<>>
                 THEN Append(all_code_blocks, code_block)
                 ELSE all_code_blocks)

\* lines 38-56: the loop over indexlines; i counts from 1
RECURSIVE collect_code_blocks(_, _, _, _)
collect_code_blocks(outputlines, indexlines, i, all_code_blocks) ==
    IF ~(i < Len(indexlines)) THEN all_code_blocks
    ELSE LET start == indexlines[i]
             end == indexlines[i + 1]
         IN  IF has_fence(outputlines[start])
             THEN LET code_block == join_lines(outputlines, start + 1, end - 1)
                  IN  collect_code_blocks(
                          outputlines, indexlines, i + 2,
                          IF strip(code_block) # <<>>
                          THEN Append(all_code_blocks, code_block)
                          ELSE all_code_blocks)
             ELSE collect_code_blocks(outputlines, indexlines, i + 1,
                                      all_code_blocks)

\* variant: the reasoning blocks are left in the text that is searched
extract_code_generation_unstripped(model_output, type) ==
    LET outputlines == split_lines(model_output)
    IN  IF type = "base" THEN Return(strip(model_output))
        ELSE IF type = "chat"
        THEN LET indexlines == fence_lines(outputlines, 1)
                 all_code_blocks ==
                     collect_code_blocks(outputlines, indexlines, 1, <<>>)
             IN  IF Len(indexlines) < 2 THEN Return(<<>>)
                 ELSE IF all_code_blocks = <<>>
                 THEN Return(join_lines(outputlines, indexlines[1] + 1,
                                        indexlines[2] - 1))
                 ELSE Return(longest(all_code_blocks))
        ELSE Raise("ValueError")

\* variant: an unknown mode is taken for 'chat'
extract_code_generation_default_chat(model_output, type) ==
    LET stripped == strip_thinking_blocks(model_output)
        outputlines == split_lines(stripped)
    IN  IF type = "base" THEN Return(strip(stripped))
        ELSE LET indexlines == fence_lines(outputlines, 1)
                 all_code_blocks ==
                     collect_code_blocks(outputlines, indexlines, 1, <<>>)
             IN  IF Len(indexlines) < 2 THEN Return(<<>>)
                 ELSE IF all_code_blocks = <<>>
                 THEN Return(join_lines(outputlines, indexlines[1] + 1,
                                        indexlines[2] - 1))
                 ELSE Return(longest(all_code_blocks))

\* variant: 'base' extracts a block as 'chat' does
extract_code_generation_base_as_chat(model_output, type) ==
    IF type \in {"base", "chat"}
    THEN extract_code_generation_default_chat(model_output, "chat")
    ELSE Raise("ValueError")

\* lines 17-64
extract_code_generation(model_output, type) ==
    LET stripped == strip_thinking_blocks(model_output)
        outputlines == split_lines(stripped)
    IN  IF type = "base" THEN Return(strip(stripped))
        ELSE IF type = "chat"
        THEN LET indexlines == fence_lines(outputlines, 1)
                 all_code_blocks ==
                     collect_code_blocks(outputlines, indexlines, 1, <<>>)
             IN  IF Len(indexlines) < 2 THEN Return(<<>>)
                 ELSE IF all_code_blocks = <<>>
                 THEN Return(join_lines(outputlines, indexlines[1] + 1,
                                        indexlines[2] - 1))
                 ELSE Return(longest(all_code_blocks))
        ELSE Raise("ValueError")

(***************************************************************************)
(* Calls of extract_code_generation.  The text is any concatenation of at  *)
(* most MaxGenPieces pieces: whole fenced blocks, fence lines, code lines, *)
(* a blank line, a fence that does not end its line and a reasoning block  *)
(* that holds a fence line.                                                *)
(***************************************************************************)
GenPieces ==
    { Block(<<>>, <<120>>),                               \* untagged, x
      Block(python, <<121, 32, 121>>),                    \* python, y y
      fence \o <<10>>,
      fence \o python \o <<10>>,
      <<120, 10>>,                                        \* x newline
      <<32, 10>>,                                         \* space newline
      fence \o <<32>>,
      think_open \o fence \o <<10>> \o think_close }

ModelTypes == { "base", "chat", "invalid_mode", "Chat" }

InitGen ==
    /\ call = "extract_code_generation"
    /\ text \in PieceTexts(GenPieces, MaxGenPieces)
    /\ language = <<>>
    /\ model_type \in ModelTypes
    /\ pc = "call"
    /\ result = NoResult
    /\ calls = <<>>
    /\ frames = <<>>
    /\ NoIO

CallExtractCodeGeneration ==
    /\ pc = "call"
    /\ call = "extract_code_generation"
    /\ LET outcome == extract_code_generation(text, model_type)
       IN  /\ result' = outcome.value
           /\ pc' = IF outcome.kind = "raise" THEN "raised" ELSE "done"
    /\ UNCHANGED <<call, text, language, model_type, calls, frames, io_vars>>

NextGen == CallExtractCodeGeneration

SpecGen == InitGen /\ [][NextGen]_vars


(***************************************************************************)
(* Properties of extract_code_generation.                                  *)
(***************************************************************************)
\* the lines of the stripped text
StrippedLines(t) == split_lines(strip_thinking_blocks(t))

\* the numbers of the lines that hold a fence
FenceLineSet(lines) == { i \in DOMAIN lines : Occurrences(lines[i], fence, 1) # {} }

\* the k-th fence line
FenceLine(lines, k) ==
    CHOOSE i \in FenceLineSet(lines) :
        Cardinality({ j \in FenceLineSet(lines) : j <= i }) = k

\* the pairs of fence lines: first with second, third with fourth, ...
FencePairs(lines) == 1..(Cardinality(FenceLineSet(lines)) \div 2)

\* the content of the k-th pair: the lines between its two fence lines
PairContent(lines, k) ==
    join_lines(lines, FenceLine(lines, 2 * k - 1) + 1, FenceLine(lines, 2 * k) - 1)

\* the contents of the pairs that are not blank
Collected(lines) ==
    { PairContent(lines, k) : k \in FencePairs(lines) } \ { c \in { PairContent(lines, k) : k \in FencePairs(lines) } : strip(c) = <<>> }

\* C14: in 'chat' mode, with at least two fence lines and a pair whose
\* content is not blank, extract_code_generation returns the content of a
\* pair of fence lines taken in order, and no non-blank pair has a longer
\* content.
C14_LongestPairedBlock ==
    (Returned /\ call = "extract_code_generation" /\ model_type = "chat") =>
        LET lines == StrippedLines(text)
        IN  Collected(lines) # {} =>
                /\ result \in Collected(lines)
                /\ \A c \in Collected(lines) : Len(c) <= Len(result)

\* an untagged pseudocode block followed by a longer tagged implementation
C14_ImplementationAfterPseudocode ==
    /\ Returned
    /\ call = "extract_code_generation"
    /\ model_type = "chat"
    /\ text = Block(<<>>, <<120>>) \o Block(python, <<121, 32, 121>>)
    /\ result = <<121, 32, 121>>


\* C15: in 'chat' mode extract_code_generation returns the empty string
\* whenever the text left by strip_thinking_blocks has fewer than two lines
\* that hold a fence.
C15_FewerThanTwoFenceLines ==
    (Returned /\ call = "extract_code_generation" /\ model_type = "chat") =>
        (Cardinality(FenceLineSet(StrippedLines(text))) < 2 => result = <<>>)

\* two fence lines in the text as given, one of them inside a reasoning
\* block, and a code line: the empty string is returned
C15_FenceLineInReasoning ==
    /\ Returned
    /\ call = "extract_code_generation"
    /\ model_type = "chat"
    /\ Cardinality(FenceLineSet(split_lines(text))) = 2
    /\ Cardinality(FenceLineSet(StrippedLines(text))) = 1
    /\ \E i \in DOMAIN text : text[i] = 120
    /\ result = <<>>


\* C16: a call of extract_code_generation with a mode other than 'base'
\* and 'chat' never returns a value, whatever the text: it ends by raising
\* ValueError.
C16_InvalidModeRaises ==
    (call = "extract_code_generation" /\ model_type \notin {"base", "chat"}) =>
        /\ pc \in {"call", "raised"}
        /\ pc = "raised" => result = "ValueError"

\* an invalid mode with a text that holds a whole fenced block
C16_InvalidModeWithBlock ==
    /\ call = "extract_code_generation"
    /\ model_type = "invalid_mode"
    /\ Cardinality(FenceLineSet(StrippedLines(text))) = 2
    /\ Collected(StrippedLines(text)) # {}
    /\ pc = "raised"
    /\ result = "ValueError"


\* C17: in 'base' mode extract_code_generation returns
\* strip_thinking_blocks(text), fences included, and the returned text has
\* no whitespace at either end.
C17_BaseReturnsStrippedText ==
    (Returned /\ call = "extract_code_generation" /\ model_type = "base") =>
        /\ result = strip_thinking_blocks(text)
        /\ Trimmed(result) = result

\* a reasoning block and a whole fenced block: the block is returned with
\* its fences, the reasoning block is not
C17_BaseKeepsFences ==
    /\ Returned
    /\ call = "extract_code_generation"
    /\ model_type = "base"
    /\ Occurrences(text, think_open, 1) # {}
    /\ Collected(StrippedLines(text)) # {}
    /\ Len(FenceSeq(result, 1)) = 2
    /\ Occurrences(result, think_open, 1) = {}
    /\ Len(result) < Len(text)


(***************************************************************************)
(* The text utilities called with an argument of any type.  A Python       *)
(* object is a record of its type and its value: the number of an int or   *)
(* a bool, the characters of a str, the items of a list.  A call ends by   *)
(* returning an object or by raising an exception.                         *)
(***************************************************************************)
PyNone == [type |-> "NoneType", num |-> 0, chars |-> <<>>, items |-> <<>>]

PyInt(n) == [type |-> "int", num |-> n, chars |-> <<>>, items |-> <<>>]

PyBool(b) ==
    [type |-> "bool", num |-> IF b THEN 1 ELSE 0, chars |-> <<>>, items |-> <<>>]

PyList(items) == [type |-> "list", num |-> 0, chars |-> <<>>, items |-> items]

PyStr(s) == [type |-> "str", num |-> 0, chars |-> s, items |-> <<>>]

\* bool(obj): None, 0, False, [] and '' are false
truthy(obj) ==
    CASE obj.type = "NoneType" -> FALSE
      [] obj.type = "int" -> obj.num # 0
      [] obj.type = "bool" -> obj.num # 0
      [] obj.type = "list" -> obj.items # <<>>
      [] obj.type = "str" -> obj.chars # <<>>

\* ' '.join(text.split()): the words of t, one space between them
RECURSIVE join_words(_)
join_words(t) ==
    LET s == lstrip(t)
        spaces == { i \in DOMAIN s : isspace(s[i]) }
    IN  IF s = <<>> THEN <<>>
        ELSE IF spaces = {} THEN s
        ELSE LET rest == join_words(SubSeq(s, Min(spaces), Len(s)))
             IN  SubSeq(s, 1, Min(spaces) - 1)
                     \o (IF rest = <<>> THEN <<>> ELSE <<32>> \o rest)

\* utils.py, lines 87-106, on a string
normalize_answer(t) ==
    IF t = <<>> THEN t
    ELSE strip(join_words(strip_thinking_blocks(t)))

\* utils.py, lines 21-31: 'if not text: return text', then re.sub, which
\* raises TypeError when text is not a string
typed_strip_thinking_blocks(obj) ==
    IF ~truthy(obj) THEN Return(obj)
    ELSE IF obj.type # "str" THEN Raise("TypeError")
    ELSE Return(PyStr(strip_thinking_blocks(obj.chars)))

\* utils.py, lines 46-84: 'if not text: return text', then
\* strip_thinking_blocks(text)
typed_extract_code_block(obj, lang) ==
    IF ~truthy(obj) THEN Return(obj)
    ELSE IF typed_strip_thinking_blocks(obj).kind = "raise"
    THEN typed_strip_thinking_blocks(obj)
    ELSE Return(PyStr(extract_code_block(obj.chars, lang)))

\* utils.py, lines 97-106: 'if not text: return text', then
\* strip_thinking_blocks(text)
typed_normalize_answer(obj) ==
    IF ~truthy(obj) THEN Return(obj)
    ELSE IF typed_strip_thinking_blocks(obj).kind = "raise"
    THEN typed_strip_thinking_blocks(obj)
    ELSE Return(PyStr(normalize_answer(obj.chars)))

\* extract_utils.py, lines 20-22: strip_thinking_blocks(model_output), then
\* model_output.split('\n'), which raises AttributeError when what the strip
\* returned is not a string
typed_extract_code_generation(obj, type) ==
    LET stripped == typed_strip_thinking_blocks(obj)
    IN  IF stripped.kind = "raise" THEN stripped
        ELSE IF stripped.value.type # "str" THEN Raise("AttributeError")
        ELSE LET outcome == extract_code_generation(obj.chars, type)
             IN  IF outcome.kind = "raise" THEN outcome
                 ELSE Return(PyStr(outcome.value))

\* code_switching_adapter.py, line 33: re.sub on the argument, which raises
\* TypeError when it is not a string
typed_is_mainly_thai(obj) ==
    IF obj.type # "str" THEN Raise("TypeError")
    ELSE Return(PyBool(is_mainly_thai(obj.chars)))

(***************************************************************************)
(* Calls of the utilities with an object: None, a number, a boolean, a     *)
(* list of at most MaxObjSize items, or a string of at most MaxObjSize     *)
(* pieces.                                                                 *)
(***************************************************************************)
ListItems == { PyInt(0), PyNone, PyStr(<<97>>) }

ObjPieces ==
    { <<97>>,                                  \* a
      <<32>>,                                  \* space
      think_open \o <<97>> \o think_close,     \* <think>a</think>
      Block(python, <<120>>) }

Objects ==
    { PyNone, PyInt(0), PyInt(5), PyBool(FALSE), PyBool(TRUE) }
        \cup { PyList(items) : items \in UNION { [1..k -> ListItems] : k \in 0..MaxObjSize } }
        \cup { PyStr(s) : s \in PieceTexts(ObjPieces, MaxObjSize) }

Utilities ==
    { "strip_thinking_blocks", "extract_code_block", "normalize_answer",
      "extract_code_generation", "is_mainly_thai" }

InitTyped ==
    /\ call \in Utilities
    /\ text \in Objects
    /\ language = IF call = "extract_code_block" THEN python ELSE <<>>
    /\ model_type \in IF call = "extract_code_generation"
                      THEN {"base", "chat"} ELSE {""}
    /\ pc = "call"
    /\ result = NoResult
    /\ calls = <<>>
    /\ frames = <<>>
    /\ NoIO

\* the call ends with the outcome: returned or raised
Finish(outcome) ==
    /\ pc = "call"
    /\ result' = outcome.value
    /\ pc' = IF outcome.kind = "raise" THEN "raised" ELSE "done"
    /\ UNCHANGED <<call, text, language, model_type, calls, frames, io_vars>>

TypedStripThinkingBlocks ==
    /\ call = "strip_thinking_blocks"
    /\ Finish(typed_strip_thinking_blocks(text))

TypedExtractCodeBlock ==
    /\ call = "extract_code_block"
    /\ Finish(typed_extract_code_block(text, language))

TypedNormalizeAnswer ==
    /\ call = "normalize_answer"
    /\ Finish(typed_normalize_answer(text))

TypedExtractCodeGeneration ==
    /\ call = "extract_code_generation"
    /\ Finish(typed_extract_code_generation(text, model_type))

TypedIsMainlyThai ==
    /\ call = "is_mainly_thai"
    /\ Finish(typed_is_mainly_thai(text))

NextTyped ==
    \/ TypedStripThinkingBlocks
    \/ TypedExtractCodeBlock
    \/ TypedNormalizeAnswer
    \/ TypedExtractCodeGeneration
    \/ TypedIsMainlyThai

SpecTyped == InitTyped /\ [][NextTyped]_vars

\* the results the spec calls empty
EmptyResults == { PyNone, PyStr(<<>>), PyList(<<>>) }

\* C18: a text utility given an argument that is not a string (None, a
\* number, a list) never raises: it returns the argument unchanged or an
\* empty result.
C18_NonStringNeverRaises ==
    (call \in Utilities /\ text.type # "str") =>
        /\ pc # "raised"
        /\ Returned => (result = text \/ result \in EmptyResults)


(***************************************************************************)
(* Concurrent calls of is_mainly_thai, strip_thinking_blocks,              *)
(* extract_code_block and extract_code_generation.  Each call runs its     *)
(* function statement by statement, the loops one iteration at a time,     *)
(* and the calls' steps interleave.  The local variables of a call live in *)
(* its frame; the functions have no other variables.                       *)
(***************************************************************************)
Callers == 1..NumCalls

\* the local variables before the first statement
NoLocals ==
    [ t |-> <<>>,                 \* response, text, model_output
      outputlines |-> <<>>,
      indexlines |-> <<>>,
      all_code_blocks |-> <<>>,
      i |-> 0,
      acc |-> [thai_count |-> 0, english_count |-> 0, other_chars |-> {}] ]

\* variant: the local variables are module-level, one set for every call
shared_frame(p) == 1

\* the frame that holds the local variables of call p: its own
frame_of(p) == p

\* the outcome of a step: the next position, the value returned or raised
\* and the local variables
Goto(pos, f) == [pc |-> pos, ret |-> NoResult, frame |-> f]

Ends(outcome, f) ==
    [pc |-> IF outcome.kind = "raise" THEN "raised" ELSE "done",
     ret |-> outcome.value, frame |-> f]

\* is_mainly_thai, lines 33-194
is_mainly_thai_step(c, f) ==
    CASE c.pc = "start" ->
           Goto("loop", [f EXCEPT !.t = sub_think_prefix(c.arg), !.i = 1,
                                  !.acc = NoLocals.acc])
      [] c.pc = "loop" ->
           IF f.i <= Len(f.t)
           THEN Goto("loop", [f EXCEPT !.acc = scan_chars(<<f.t[f.i]>>, 1, f.acc),
                                       !.i = f.i + 1])
           ELSE Goto("verdict", f)
      [] c.pc = "verdict" -> Ends(Return(verdict(f.acc)), f)

\* strip_thinking_blocks, lines 21-31
strip_thinking_blocks_step(c, f) ==
    CASE c.pc = "start" ->
           IF c.arg = <<>> THEN Ends(Return(c.arg), f)
           ELSE Goto("thinking",
                     [f EXCEPT !.t = sub_block(c.arg, think_open, think_close, 1)])
      [] c.pc = "thinking" ->
           Goto("strip",
                [f EXCEPT !.t = sub_block(f.t, thinking_open, thinking_close, 1)])
      [] c.pc = "strip" -> Ends(Return(strip(f.t)), f)

\* extract_code_block, lines 46-84
extract_code_block_step(c, f) ==
    CASE c.pc = "start" ->
           IF c.arg = <<>> THEN Ends(Return(c.arg), f)
           ELSE Goto("language", [f EXCEPT !.t = strip_thinking_blocks(c.arg),
                                           !.all_code_blocks = <<>>])
      [] c.pc = "language" ->
           Goto("lower",
                [f EXCEPT !.all_code_blocks =
                     append_non_blank(@, findall_blocks(f.t, c.language, 1))])
      [] c.pc = "lower" ->
           Goto("generic",
                IF lower(c.language) # c.language
                THEN [f EXCEPT !.all_code_blocks =
                         append_new_non_blank(
                             @, findall_blocks(f.t, lower(c.language), 1))]
                ELSE f)
      [] c.pc = "generic" ->
           Goto("select",
                IF f.all_code_blocks = <<>>
                THEN [f EXCEPT !.all_code_blocks =
                         append_non_blank(@, findall_blocks(f.t, <<>>, 1))]
                ELSE f)
      [] c.pc = "select" ->
           Ends(Return(IF f.all_code_blocks # <<>>
                       THEN longest(f.all_code_blocks) ELSE f.t), f)

\* outputlines[a:b] joined: a slice ends at the end of the list at the
\* latest
join_slice(lines, a, b) == join_lines(lines, a, Min({b, Len(lines)}))

\* extract_code_generation, lines 20-64; an index past the end of a list
\* raises IndexError
extract_code_generation_step(c, f) ==
    CASE c.pc = "start" ->
           Goto("split", [f EXCEPT !.t = strip_thinking_blocks(c.arg)])
      [] c.pc = "split" ->
           Goto("mode", [f EXCEPT !.outputlines = split_lines(f.t)])
      [] c.pc = "mode" ->
           IF c.model_type = "base" THEN Ends(Return(strip(f.t)), f)
           ELSE IF c.model_type = "chat"
           THEN Goto("count",
                     [f EXCEPT !.indexlines = fence_lines(f.outputlines, 1)])
           ELSE Ends(Raise("ValueError"), f)
      [] c.pc = "count" ->
           IF Len(f.indexlines) < 2 THEN Ends(Return(<<>>), f)
           ELSE Goto("while", [f EXCEPT !.all_code_blocks = <<>>, !.i = 1])
      [] c.pc = "while" ->
           IF f.i < Len(f.indexlines)
           THEN LET start == f.indexlines[f.i]
                    end == f.indexlines[f.i + 1]
                    code_block == join_slice(f.outputlines, start + 1, end - 1)
                IN  IF start > Len(f.outputlines)
                    THEN Ends(Raise("IndexError"), f)
                    ELSE IF has_fence(f.outputlines[start])
                    THEN Goto("while",
                              [f EXCEPT !.all_code_blocks =
                                            IF strip(code_block) # <<>>
                                            THEN Append(@, code_block) ELSE @,
                                        !.i = f.i + 2])
                    ELSE Goto("while", [f EXCEPT !.i = f.i + 1])
           ELSE Goto("select", f)
      [] c.pc = "select" ->
           IF f.all_code_blocks # <<>>
           THEN Ends(Return(longest(f.all_code_blocks)), f)
           ELSE IF Len(f.indexlines) < 2 THEN Ends(Raise("IndexError"), f)
           ELSE Ends(Return(join_slice(f.outputlines, f.indexlines[1] + 1,
                                       f.indexlines[2] - 1)), f)

\* the calls that run concurrently: a function with its arguments
ConcurrentCalls ==
    { [fn |-> "is_mainly_thai", arg |-> a, language |-> <<>>, model_type |-> ""] :
          a \in { <<\H0E01, 97, 97>>,                          \* Thai, a, a
                  <<97>> \o close_think \o <<\H0E01>> } }      \* a</think>Thai
    \cup
    { [fn |-> "strip_thinking_blocks", arg |-> a, language |-> <<>>,
       model_type |-> ""] :
          a \in { <<>>,
                  think_open \o <<97>> \o think_close \o <<32, 98>>
                      \o thinking_open \o thinking_close } }
    \cup
    { [fn |-> "extract_code_block", arg |-> a, language |-> l, model_type |-> ""] :
          a \in { Block(Python, <<120>>) \o Block(python, <<121, 32, 121>>),
                  Block(<<>>, <<120>>) },
          l \in { Python } }
    \cup
    { [fn |-> "extract_code_generation", arg |-> a, language |-> <<>>,
       model_type |-> m] :
          a \in { Block(<<>>, <<120>>) \o Block(python, <<121, 32, 121>>) },
          m \in { "base", "chat", "invalid_mode" } }

InitConcurrent ==
    /\ call = "concurrent"
    /\ text = <<>>
    /\ language = <<>>
    /\ model_type = ""
    /\ pc = "call"
    /\ result = NoResult
    /\ calls \in [Callers -> { [fn |-> c.fn, arg |-> c.arg, language |-> c.language,
                                model_type |-> c.model_type, pc |-> "start",
                                ret |-> NoResult] : c \in ConcurrentCalls }]
    /\ frames = [p \in Callers |-> NoLocals]
    /\ NoIO

\* call p takes the step its function gives
Step(p, outcome) ==
    /\ calls[p].pc \notin {"done", "raised"}
    /\ calls' = [calls EXCEPT ![p].pc = outcome.pc, ![p].ret = outcome.ret]
    /\ frames' = [frames EXCEPT ![frame_of(p)] = outcome.frame]
    /\ UNCHANGED <<call, text, language, model_type, pc, result, io_vars>>

StepIsMainlyThai(p) ==
    /\ calls[p].fn = "is_mainly_thai"
    /\ Step(p, is_mainly_thai_step(calls[p], frames[frame_of(p)]))

StepStripThinkingBlocks(p) ==
    /\ calls[p].fn = "strip_thinking_blocks"
    /\ Step(p, strip_thinking_blocks_step(calls[p], frames[frame_of(p)]))

StepExtractCodeBlock(p) ==
    /\ calls[p].fn = "extract_code_block"
    /\ Step(p, extract_code_block_step(calls[p], frames[frame_of(p)]))

StepExtractCodeGeneration(p) ==
    /\ calls[p].fn = "extract_code_generation"
    /\ Step(p, extract_code_generation_step(calls[p], frames[frame_of(p)]))

NextConcurrent ==
    \E p \in Callers :
        \/ StepIsMainlyThai(p)
        \/ StepStripThinkingBlocks(p)
        \/ StepExtractCodeBlock(p)
        \/ StepExtractCodeGeneration(p)

SpecConcurrent == InitConcurrent /\ [][NextConcurrent]_vars


(***************************************************************************)
(* Properties of concurrent calls.                                         *)
(***************************************************************************)
\* the outcome of the call when it runs alone on the same input
Alone(c) ==
    CASE c.fn = "is_mainly_thai" -> Return(is_mainly_thai(c.arg))
      [] c.fn = "strip_thinking_blocks" -> Return(strip_thinking_blocks(c.arg))
      [] c.fn = "extract_code_block" -> Return(extract_code_block(c.arg, c.language))
      [] c.fn = "extract_code_generation" ->
             extract_code_generation(c.arg, c.model_type)

\* every call that has ended has the outcome it has alone
SameAsAlone ==
    \A p \in Callers :
        calls[p].pc \in {"done", "raised"} =>
            /\ calls[p].pc = IF Alone(calls[p]).kind = "raise" THEN "raised" ELSE "done"
            /\ calls[p].ret = Alone(calls[p]).value

\* a step is taken by one call and leaves the other calls and their local
\* variables as they were
OwnVariablesOnly ==
    \E p \in Callers :
        \A q \in Callers \ {p} : calls'[q] = calls[q] /\ frames'[q] = frames[q]

\* C19: under any interleaving of concurrent calls of is_mainly_thai,
\* strip_thinking_blocks, extract_code_block and extract_code_generation,
\* each call ends with the outcome it has when it runs alone on the same
\* input, and no step of a call writes a variable of another call.
C19_ReentrantCalls ==
    [](call = "concurrent" => SameAsAlone) /\ [][OwnVariablesOnly]_vars

\* two calls of different functions ended after the other had started and
\* before it ended
C19_InterleavedCallsEnded ==
    /\ call = "concurrent"
    /\ \E p, q \in Callers :
          /\ calls[p].fn = "extract_code_block"
          /\ calls[p].pc = "done"
          /\ calls[p].ret = <<121, 32, 121>>
          /\ calls[q].fn = "extract_code_generation"
          /\ calls[q].pc = "while"
          /\ frames[q].all_code_blocks # <<>>


(***************************************************************************)
(* CodeSwitchingAdapter.match_score (code_switching_adapter.py, lines      *)
(* 256-285).  The Score is a record of the attributes match_score sets;    *)
(* the accuracy 1.0 or 0.0 is the number 1 or 0.                           *)
(***************************************************************************)
\* variant: the original prediction is classified instead of the filtered
\* one
match_score_of_original(original_prediction, filtered_prediction, reference) ==
    LET is_thai == is_mainly_thai(original_prediction)
    IN  [ extracted_prediction |-> filtered_prediction,
          prediction |-> original_prediction,
          value |-> [accuracy |-> IF is_thai THEN 1 ELSE 0],
          main_score_name |-> "accuracy",
          metadata |->
              [ is_mainly_thai |-> is_thai,
                reason |-> IF is_thai
                           THEN "Response is primarily in Thai language."
                           ELSE "Response is not primarily in Thai language." ] ]

\* lines 261-285; task_state is not used
match_score(original_prediction, filtered_prediction, reference) ==
    LET is_thai == is_mainly_thai(filtered_prediction)
    IN  [ extracted_prediction |-> filtered_prediction,
          prediction |-> original_prediction,
          value |-> [accuracy |-> IF is_thai THEN 1 ELSE 0],
          main_score_name |-> "accuracy",
          metadata |->
              [ is_mainly_thai |-> is_thai,
                reason |-> IF is_thai
                           THEN "Response is primarily in Thai language."
                           ELSE "Response is not primarily in Thai language." ] ]

(***************************************************************************)
(* Calls of match_score.  The predictions are concatenations of at most    *)
(* MaxScorePieces pieces; text holds the three text arguments.             *)
(***************************************************************************)
ScorePieces ==
    { <<\H0E01>>,          \* Thai letter
      <<97>>,              \* a
      <<32>>,              \* space
      <<\H0416>>,          \* Cyrillic letter
      close_think }

InitScore ==
    /\ call = "match_score"
    /\ text \in [ original_prediction : PieceTexts(ScorePieces, MaxScorePieces),
                  filtered_prediction : PieceTexts(ScorePieces, MaxScorePieces),
                  reference : { <<>>, <<\H0E01>> } ]
    /\ language = <<>>
    /\ model_type = ""
    /\ pc = "call"
    /\ result = NoResult
    /\ calls = <<>>
    /\ frames = <<>>
    /\ NoIO

CallMatchScore ==
    /\ pc = "call"
    /\ call = "match_score"
    /\ result' = match_score(text.original_prediction, text.filtered_prediction,
                             text.reference)
    /\ pc' = "done"
    /\ UNCHANGED <<call, text, language, model_type, calls, frames, io_vars>>

NextScore == CallMatchScore

SpecScore == InitScore /\ [][NextScore]_vars

(***************************************************************************)
(* Properties of match_score.                                              *)
(***************************************************************************)
\* the text is mainly Thai by the decision rule: after the reasoning prefix
\* no character of class other, and at most as many Latin as Thai letters
MainlyThai(t) ==
    LET r == sub_think_prefix(t)
    IN  /\ \A i \in DOMAIN r : ~IsOtherChar(r[i])
        /\ CountLatin(r) <= CountThai(r)

\* C20: the Score of match_score has an accuracy in [0,1]: 1 when the
\* filtered prediction is mainly Thai and 0 otherwise, and its metadata
\* flag is_mainly_thai is true exactly when the accuracy is 1.
C20_AccuracyZeroOrOne ==
    (Returned /\ call = "match_score") =>
        /\ 0 <= result.value.accuracy /\ result.value.accuracy <= 1
        /\ result.value.accuracy =
               IF MainlyThai(text.filtered_prediction) THEN 1 ELSE 0
        /\ result.metadata.is_mainly_thai = (result.value.accuracy = 1)
        /\ result.main_score_name = "accuracy"

\* a filtered prediction that is mainly Thai though the original one is not
C20_FilteredThaiOriginalNot ==
    /\ Returned
    /\ call = "match_score"
    /\ MainlyThai(text.filtered_prediction)
    /\ ~MainlyThai(text.original_prediction)
    /\ CountThai(text.filtered_prediction) = 1
    /\ CountLatin(text.filtered_prediction) = 1
    /\ result.value.accuracy = 1
    /\ result.metadata.is_mainly_thai


(***************************************************************************)
(* What extract_code_block returns when it returns a block.                *)
(***************************************************************************)
\* the trimmed contents of the fenced blocks of t, the fences paired in
\* order of appearance
RealBlockContents(t) ==
    { strip(BlockContent(t, b)) : b \in FencedBlocks(t) }

\* C29: whenever extract_code_block returns something other than the whole
\* stripped text, the returned string is the trimmed content of a fenced
\* block of the stripped text, the fences pairing up in order of appearance
\* (first opens, second closes, third opens, ...); it is never the prose
\* between the closing fence of one block and the opening fence of the next.
C29_ReturnsRealBlock ==
    (Returned /\ call = "extract_code_block") =>
        LET t == strip_thinking_blocks(text)
        IN  result # t => result \in RealBlockContents(t)


(***************************************************************************)
(* The retrying client of openai_compatible_wrapper.py.                    *)
(*                                                                         *)
(* client holds what chat.completions.create and                           *)
(* chat.completions._original_create denote: the SDK's create or a         *)
(* wrapped_create closure of wrap_openai_client.  kwargs is the dict of    *)
(* keyword arguments of the call in flight: a function from the keys       *)
(* present to their values.  The SDK's create is the environment: each     *)
(* call of it returns a response or raises, and sent lists these calls     *)
(* with the arguments they received.  The waits (time.sleep) and the log   *)
(* lines change no state and are left out.                                 *)
(***************************************************************************)
\* line 19
max_retries == 5

\* wrap_openai_client applied to one client at most this many times
MaxWraps == 2

\* str is modelled by its length where only the length is read (message
\* contents, lines 69-72 and 87-90)
StrOfLen(n) == [type |-> "str", len |-> n]

NoneContent == [type |-> "NoneType", len |-> 0]

\* an exception: its class and str(e)
Exc(class, msg) == [type |-> class, text |-> msg]

\* a ChatCompletion, by its id
ChatCompletion(id) == [type |-> "ChatCompletion", text |-> id]

\* sub in s
Contains(s, sub) == Occurrences(s, sub, 1) # {}

HasKey(kw, key) == key \in DOMAIN kw

\* variant: max_tokens is set to the cap
set_max_tokens(kw, cap) ==
    IF kw["max_tokens"].type # "int"
    THEN Raise(Exc("TypeError", <<39, 60, 39, 32, 110, 111, 116, 32, 115, 117, 112, 112, 111, 114, 116, 101, 100>>))   \* "'<' not supported"
    ELSE Return([kw EXCEPT !["max_tokens"] = PyInt(cap)])

\* lines 53, 63, 77, 82: kwargs['max_tokens'] = min(kwargs.get('max_tokens', d), cap);
\* min raises TypeError when the value is None
reduce_max_tokens(kw, cap) ==
    IF kw["max_tokens"].type # "int"
    THEN Raise(Exc("TypeError", <<39, 60, 39, 32, 110, 111, 116, 32, 115, 117, 112, 112, 111, 114, 116, 101, 100>>))   \* "'<' not supported"
    ELSE Return([kw EXCEPT !["max_tokens"] = PyInt(Min({ @.num, cap }))])

\* lines 70-72 and 88-90: content[:limit] + "... [truncated]" when the
\* content is longer than limit
truncate_content(content, limit) ==
    IF content.len > limit
    THEN StrOfLen(limit + Len(<<46, 46, 46, 32, 91, 116, 114, 117, 110, 99, 97, 116, 101, 100, 93>>))   \* '... [truncated]'
    ELSE content

\* lines 68-73 and 86-90: the loop over kwargs['messages']; len(content)
\* raises TypeError when the content is None
truncate_messages(kw, limit) ==
    IF \E i \in DOMAIN kw["messages"] : kw["messages"][i].content.type # "str"
    THEN Raise(Exc("TypeError", <<111, 98, 106, 101, 99, 116, 32, 111, 102, 32, 116, 121, 112, 101, 32, 39, 78, 111, 110, 101, 84, 121, 112, 101, 39, 32, 104, 97, 115, 32, 110, 111, 32, 108, 101, 110, 40, 41>>))   \* "object of type 'NoneType' has no len()"
    ELSE Return([kw EXCEPT !["messages"] =
                    [i \in DOMAIN @ |->
                        [@[i] EXCEPT !.content = truncate_content(@, limit)]]])

\* lines 44-54: a connection error or a timeout
on_connection_error(kw, n) ==
    IF n >= 2 /\ HasKey(kw, "max_tokens")
    THEN reduce_max_tokens(kw, 4096)
    ELSE Return(kw)

\* lines 60-64: the first attempt failed with a server error
on_first_server_error(kw) == reduce_max_tokens(kw, 8192)

\* lines 66-77: the second attempt failed with a server error
on_second_server_error(kw) ==
    LET truncated == truncate_messages(kw, 10000)
    IN  IF truncated.kind = "raise" THEN truncated
        ELSE IF HasKey(kw, "max_tokens")
             THEN reduce_max_tokens(truncated.value, 4096)
             ELSE truncated

\* lines 79-90: a later attempt failed with a server error
on_later_server_error(kw) ==
    LET reduced == IF HasKey(kw, "max_tokens")
                   THEN reduce_max_tokens(kw, 2048) ELSE Return(kw)
    IN  IF reduced.kind = "raise" THEN reduced
        ELSE IF HasKey(kw, "messages")
             THEN truncate_messages(reduced.value, 5000)
             ELSE reduced

\* lines 56-90: an InternalServerError
on_server_error(kw, n, e) ==
    IF Contains(e.text, <<69, 110, 103, 105, 110, 101, 67, 111, 114, 101>>) \/ Contains(e.text, <<53, 48, 48>>)   \* 'EngineCore' | '500'
    THEN IF n = 0 /\ HasKey(kw, "max_tokens") THEN on_first_server_error(kw)
         ELSE IF n = 1 /\ HasKey(kw, "messages") THEN on_second_server_error(kw)
         ELSE IF n >= 2 THEN on_later_server_error(kw)
         ELSE Return(kw)
    ELSE Return(kw)

\* lines 36-101: the except clauses of attempt n, e the exception caught.
\* The outcome is the kwargs of the next attempt, or the exception a
\* statement of the clause raised.
handle_error(kw, n, e) ==
    IF e.type \in { "APIConnectionError", "APITimeoutError" }
    THEN on_connection_error(kw, n)
    ELSE IF e.type = "InternalServerError"
    THEN on_server_error(kw, n, e)
    ELSE Return(kw)

\* variant: one pass more
loop_continues_inclusive(n) == n <= max_retries

\* line 31: for attempt in range(self.max_retries)
loop_continues(n) == n < max_retries

\* lines 107-133
create_fallback_response(request_kwargs) == ChatCompletion(<<101, 114, 114, 111, 114, 45, 102, 97, 108, 108, 98, 97, 99, 107>>)   \* 'error-fallback'

\* line 147
is_retry_model_case_sensitive(model) ==
    Contains(model, <<113, 119, 101, 110, 51>>) \/ Contains(model, <<103, 112, 116, 45, 111, 115, 115, 45, 49, 50, 48, 98>>)   \* 'qwen3' | 'gpt-oss-120b'

\* line 147: 'qwen3' in model.lower() or 'gpt-oss-120b' in model.lower()
is_retry_model(model) ==
    Contains(lower(model), <<113, 119, 101, 110, 51>>) \/ Contains(lower(model), <<103, 112, 116, 45, 111, 115, 115, 45, 49, 50, 48, 98>>)   \* 'qwen3' | 'gpt-oss-120b'

\* line 146: kwargs.get('model', '')
get_model(kw) == IF HasKey(kw, "model") THEN kw["model"] ELSE <<>>

\* variant: the create of the moment is recorded at every wrap
record_original_create_always(c) == c.create

\* lines 139-140: _original_create is set when the attribute is missing
record_original_create(c) ==
    IF c._original_create = "unset" THEN c.create ELSE c._original_create

\* lines 136-155
wrap_openai_client(c) ==
    [ create |-> "wrapped_create",
      _original_create |-> record_original_create(c),
      wraps |-> c.wraps + 1 ]

\* client.chat.completions._original_create(**kwargs), lines 34 and 152,
\* the SDK's create ending with outcome: the call made when
\* _original_create is the SDK's create; a wrapped_create in its place
\* would call itself without end (RecursionError) and never reach the SDK
original_create(c, kw, outcome) ==
    IF c._original_create = "create"
    THEN [ made |-> <<[kwargs |-> kw, outcome |-> outcome]>>, outcome |-> outcome ]
    ELSE [ made |-> <<>>,
           outcome |-> Raise(Exc("RecursionError", <<109, 97, 120, 105, 109, 117, 109, 32, 114, 101, 99, 117, 114, 115, 105, 111, 110, 32, 100, 101, 112, 116, 104, 32, 101, 120, 99, 101, 101, 100, 101, 100>>)) ]   \* 'maximum recursion depth exceeded'

(***************************************************************************)
(* Calls of create.  A request names a model or none, carries max_tokens   *)
(* (an int or None) or not, and messages (one message, its content a str   *)
(* or None) or not.  The client is wrapped any number of times up to       *)
(* MaxWraps before the call.                                               *)
(***************************************************************************)
ModelNames ==
    { <<81, 119, 101, 110, 51, 45, 56, 66>>, <<103, 112, 116, 45, 111, 115, 115, 45, 49, 50, 48, 98>>, <<103, 112, 116, 45, 52, 111>>, <<113, 119, 101, 110, 50, 46, 53>> }   \* 'Qwen3-8B' | 'gpt-oss-120b' | 'gpt-4o' | 'qwen2.5'

MaxTokensValues == { PyNone, PyInt(1024), PyInt(6000), PyInt(32768) }

Contents == { StrOfLen(12), StrOfLen(12000), NoneContent }

\* the dicts with some of the keys model, max_tokens and messages
Requests ==
    LET models == { <<>> } \cup { "model" :> m : m \in ModelNames }
        tokens == { <<>> } \cup { "max_tokens" :> t : t \in MaxTokensValues }
        messages == { <<>> } \cup
            { "messages" :> <<[role |-> "user", content |-> c]>> : c \in Contents }
    IN  { m @@ t @@ msgs : m \in models, t \in tokens, msgs \in messages }

\* what the SDK's create does with a request: it returns a response or
\* raises one of the errors of lines 36 and 95
Outcomes ==
    { Return(ChatCompletion(<<99, 104, 97, 116, 99, 109, 112, 108, 45, 49>>)),   \* 'chatcmpl-1'
      Raise(Exc("InternalServerError", <<69, 114, 114, 111, 114, 32, 99, 111, 100, 101, 58, 32, 53, 48, 48>>)),   \* 'Error code: 500'
      Raise(Exc("InternalServerError", <<69, 110, 103, 105, 110, 101, 67, 111, 114, 101, 32, 100, 105, 101, 100>>)),   \* 'EngineCore died'
      Raise(Exc("InternalServerError", <<69, 114, 114, 111, 114, 32, 99, 111, 100, 101, 58, 32, 53, 48, 51>>)),   \* 'Error code: 503'
      Raise(Exc("APIConnectionError", <<67, 111, 110, 110, 101, 99, 116, 105, 111, 110, 32, 101, 114, 114, 111, 114, 46>>)),   \* 'Connection error.'
      Raise(Exc("APITimeoutError", <<82, 101, 113, 117, 101, 115, 116, 32, 116, 105, 109, 101, 100, 32, 111, 117, 116, 46>>)),   \* 'Request timed out.'
      Raise(Exc("RateLimitError", <<69, 114, 114, 111, 114, 32, 99, 111, 100, 101, 58, 32, 52, 50, 57>>)) }   \* 'Error code: 429'

InitClient ==
    /\ call = "create"
    /\ text = <<>>
    /\ language = <<>>
    /\ model_type = ""
    /\ pc = "call"
    /\ result = NoResult
    /\ calls = <<>>
    /\ frames = <<>>
    /\ client = [ create |-> "create", _original_create |-> "unset", wraps |-> 0 ]
    /\ kwargs \in Requests
    /\ attempt = 0
    /\ sent = <<>>
    /\ args = <<>>
    /\ fs = <<>>

text_vars == <<call, text, language, model_type, calls, frames, args, fs>>

\* the call ends: it returns the value or raises the exception of outcome
Ended(outcome) ==
    /\ pc' = IF outcome.kind = "raise" THEN "raised" ELSE "done"
    /\ result' = outcome.value

\* wrap_openai_client(client), lines 136-155
WrapOpenAIClient ==
    /\ pc = "call"
    /\ client.wraps < MaxWraps
    /\ client' = wrap_openai_client(client)
    /\ UNCHANGED <<pc, result, kwargs, attempt, sent, text_vars>>

\* client.chat.completions.create(**kwargs) on a client that was never
\* wrapped: the SDK's create
Create ==
    /\ pc = "call"
    /\ client.create = "create"
    /\ \E outcome \in Outcomes :
           /\ sent' = Append(sent, [kwargs |-> kwargs, outcome |-> outcome])
           /\ Ended(outcome)
    /\ UNCHANGED <<client, kwargs, attempt, text_vars>>

\* wrapped_create(**kwargs), lines 144-152: a retry-path model enters
\* chat_completions_create (line 29), any other goes to _original_create
WrappedCreate ==
    /\ pc = "call"
    /\ client.create = "wrapped_create"
    /\ IF is_retry_model(get_model(kwargs))
       THEN /\ pc' = "retry"
            /\ attempt' = 0
            /\ UNCHANGED <<result, sent>>
       ELSE /\ \E outcome \in Outcomes :
                   LET called == original_create(client, kwargs, outcome)
                   IN  /\ sent' = sent \o called.made
                       /\ Ended(called.outcome)
            /\ UNCHANGED attempt
    /\ UNCHANGED <<client, kwargs, text_vars>>

\* one pass of the loop of chat_completions_create, lines 31-101
Attempt ==
    /\ pc = "retry"
    /\ loop_continues(attempt)
    /\ \E outcome \in Outcomes :
           LET called == original_create(client, kwargs, outcome)
               handled == handle_error(kwargs, attempt, called.outcome.value)
           IN  /\ sent' = sent \o called.made
               /\ IF called.outcome.kind = "return"
                  THEN /\ Ended(called.outcome)
                       /\ UNCHANGED <<kwargs, attempt>>
                  ELSE IF handled.kind = "raise"
                  THEN /\ Ended(handled)
                       /\ UNCHANGED <<kwargs, attempt>>
                  ELSE /\ kwargs' = handled.value
                       /\ attempt' = attempt + 1
                       /\ UNCHANGED <<pc, result>>
    /\ UNCHANGED <<client, text_vars>>

\* lines 103-105: the loop ended with every attempt failed
Fallback ==
    /\ pc = "retry"
    /\ ~loop_continues(attempt)
    /\ Ended(Return(create_fallback_response(kwargs)))
    /\ UNCHANGED <<client, kwargs, attempt, sent, text_vars>>

NextClient ==
    \/ WrapOpenAIClient
    \/ Create
    \/ WrappedCreate
    \/ Attempt
    \/ Fallback

SpecClient == InitClient /\ [][NextClient]_vars

(***************************************************************************)
(* Properties of the retrying client.                                      *)
(***************************************************************************)
\* the call is one of chat_completions_create: the client is wrapped and
\* the model is one of the retry path
ThroughWrapper ==
    /\ call = "create"
    /\ client.create = "wrapped_create"
    /\ is_retry_model(get_model(kwargs))

Failed(i) == sent[i].outcome.kind = "raise"

IsFallback(r) == r = ChatCompletion(<<101, 114, 114, 111, 114, 45, 102, 97, 108, 108, 98, 97, 99, 107>>)   \* 'error-fallback'

\* C21: chat_completions_create never propagates an exception to its
\* caller: for any failures of the underlying create and any request
\* arguments, it returns the first successful response or, once all
\* max_retries attempts have failed, the fallback ChatCompletion with id
\* 'error-fallback'.
C21_NeverPropagates ==
    ThroughWrapper =>
        /\ pc # "raised"
        /\ pc = "done" =>
               \/ /\ ~Failed(Len(sent))
                  /\ result = sent[Len(sent)].outcome.value
               \/ /\ Len(sent) = 5
                  /\ \A i \in DOMAIN sent : Failed(i)
                  /\ IsFallback(result)

\* C26: one call of chat_completions_create invokes the underlying create
\* at most max_retries (5) times whatever the outcomes, makes no further
\* invocation after the first success, and has invoked it exactly 5 times,
\* each one failing, when it returns the fallback.
C26_AtMostFiveInvocations ==
    ThroughWrapper =>
        /\ Len(sent) <= 5
        /\ \A i \in DOMAIN sent : ~Failed(i) => i = Len(sent) /\ pc = "done"
        /\ (pc = "done" /\ IsFallback(result)) =>
               Len(sent) = 5 /\ \A i \in DOMAIN sent : Failed(i)

\* the fallback returned after five failures of different kinds
C26_FallbackAfterFiveFailures ==
    /\ ThroughWrapper
    /\ pc = "done"
    /\ IsFallback(result)
    /\ Len(sent) = 5
    /\ Cardinality({ sent[i].outcome.value.type : i \in DOMAIN sent }) >= 3

\* the max_tokens sent with the i-th invocation
SentMaxTokens(i) == sent[i].kwargs["max_tokens"]

\* C27: across the attempts of one chat_completions_create call, the
\* max_tokens sent to the underlying create never increases from one
\* attempt to the next, never falls below min(original max_tokens, 2048),
\* and a max_tokens key is never added to a request that had none.
C27_MaxTokensNonIncreasing ==
    ThroughWrapper =>
        \A i \in DOMAIN sent :
            /\ HasKey(sent[i].kwargs, "max_tokens") = HasKey(sent[1].kwargs, "max_tokens")
            /\ HasKey(sent[i].kwargs, "max_tokens") =>
                   /\ SentMaxTokens(i).type = SentMaxTokens(1).type
                   /\ SentMaxTokens(i).num >= Min({ SentMaxTokens(1).num, 2048 })
                   /\ i > 1 => SentMaxTokens(i).num <= SentMaxTokens(i - 1).num

\* max_tokens went down three times, to 2048, over five attempts
C27_ReducedThreeTimes ==
    /\ ThroughWrapper
    /\ Len(sent) = 5
    /\ HasKey(sent[1].kwargs, "max_tokens")
    /\ SentMaxTokens(1).num = 32768
    /\ SentMaxTokens(5).num = 2048
    /\ Cardinality({ SentMaxTokens(i).num : i \in DOMAIN sent }) = 4

\* sub in s, the case of the letters ignored
ContainsIgnoringCase(s, sub) ==
    \E i \in 1..(Len(s) - Len(sub) + 1) :
        \A k \in DOMAIN sub : lower(<<s[i + k - 1]>>) = lower(<<sub[k]>>)

\* the model name is one of the retry path
RetryPathModel(kw) ==
    /\ HasKey(kw, "model")
    /\ \/ ContainsIgnoringCase(kw["model"], <<113, 119, 101, 110, 51>>)   \* 'qwen3'
       \/ ContainsIgnoringCase(kw["model"], <<103, 112, 116, 45, 111, 115, 115, 45, 49, 50, 48, 98>>)   \* 'gpt-oss-120b'

\* a create call of the wrapped client starts
WrappedCallStarts ==
    /\ call = "create"
    /\ client.create = "wrapped_create"
    /\ pc = "call"
    /\ pc' # "call"

\* the call for a model outside the retry path has ended: the original
\* create was called once, with the arguments of the call, and what it
\* returned or raised is what the call returns or raises
PassedThrough ==
    /\ Len(sent) = 1
    /\ sent[1].kwargs = kwargs
    /\ result = sent[1].outcome.value
    /\ (pc = "raised") = Failed(1)

\* C22: after wrap_openai_client, a create call goes through the retrying
\* wrapper if and only if its model name contains 'qwen3' or 'gpt-oss-120b',
\* compared case-insensitively; for every other model the original create is
\* called exactly once with the same arguments, its result is returned and
\* its exception propagates unchanged, with no retry and no fallback.
C22_RetryPathByModelName ==
    /\ [][WrappedCallStarts => ((pc' = "retry") = RetryPathModel(kwargs))]_vars
    /\ []((/\ call = "create"
           /\ client.create = "wrapped_create"
           /\ ~RetryPathModel(kwargs)
           /\ pc \in { "done", "raised" }) => PassedThrough)

\* a wrapped client called for a model outside the retry path: the rate
\* limit error of the original create went to the caller
C22_OtherModelRaises ==
    /\ call = "create"
    /\ client.create = "wrapped_create"
    /\ HasKey(kwargs, "model")
    /\ ~RetryPathModel(kwargs)
    /\ pc = "raised"
    /\ result.type = "RateLimitError"
    /\ Len(sent) = 1

\* C28: wrap_openai_client is safe to apply repeatedly to one client:
\* _original_create is recorded on the first wrap only and always denotes
\* the unwrapped create, so after any number of wraps a call for a
\* retry-path model makes at most 5 underlying calls and a call for any
\* other model exactly one.
C28_RepeatedWrapsKeepOriginal ==
    (call = "create" /\ client.wraps >= 1) =>
        /\ client._original_create = "create"
        /\ Len(sent) <= 5
        /\ (pc \in { "done", "raised" } /\ ~RetryPathModel(kwargs)) => Len(sent) = 1

\* a client wrapped twice made five calls for a retry-path model and
\* returned the fallback
C28_WrappedTwice ==
    /\ call = "create"
    /\ client.wraps >= 2
    /\ RetryPathModel(kwargs)
    /\ pc = "done"
    /\ IsFallback(result)
    /\ Len(sent) = 5


(***************************************************************************)
(* IFEvalAdapterPatched.run_inference (ifeval_adapter_patched.py).  The    *)
(* parent adapter's run_inference, which invokes the model, is the         *)
(* environment: it returns a TaskState or raises; sent lists its calls.    *)
(* TaskState is the harness's class: the constructor calls of lines 45 and *)
(* 62 are taken to build the state they describe, kept here by the content *)
(* of its one choice.                                                      *)
(***************************************************************************)
\* ids in a list of instruction ids
MaxIds == 2

\* line 27
problematic_formats == { <<106, 115, 111, 110, 95, 102, 111, 114, 109, 97, 116>>, <<120, 109, 108, 95, 102, 111, 114, 109, 97, 116>> }   \* 'json_format' | 'xml_format'

\* a TaskState with one choice, by the content of the choice
TaskState(content) == [type |-> "TaskState", text |-> content]

\* repr of a str without quotes or backslashes: the str in single quotes
repr_str(s) == <<39>> \o s \o <<39>>   \* "'" | "'"

\* str(list) of a list of str: [repr, repr, ...]
RECURSIVE join_reprs(_)
join_reprs(ids) ==
    IF ids = <<>> THEN <<>>
    ELSE IF Len(ids) = 1 THEN repr_str(ids[1])
    ELSE repr_str(ids[1]) \o <<44, 32>> \o join_reprs(Tail(ids))   \* ', '

str_list(ids) == <<91>> \o join_reprs(ids) \o <<93>>   \* '[' | ']'

\* lines 33-34: metadata = sample.metadata or {};
\* str(metadata.get('instruction_id_list', []))
instruction_ids_text(metadata) ==
    IF metadata.type = "dict" /\ HasKey(metadata.items, "instruction_id_list")
    THEN str_list(metadata.items["instruction_id_list"])
    ELSE str_list(<<>>)

\* lines 37-40
is_problematic(metadata) ==
    \E fmt \in problematic_formats : Contains(instruction_ids_text(metadata), fmt)

\* variant: the class of the exception decides
is_server_error_by_class(e) == e.type = "InternalServerError"

\* line 59: '500' in str(e) or 'InternalServerError' in str(e)
is_server_error(e) ==
    Contains(e.text, <<53, 48, 48>>) \/ Contains(e.text, <<73, 110, 116, 101, 114, 110, 97, 108, 83, 101, 114, 118, 101, 114, 69, 114, 114, 111, 114>>)   \* '500' | 'InternalServerError'

\* lines 29-72; inference is what super().run_inference does when it is
\* called.  made lists the calls of it.
run_inference(metadata, model_id, inference) ==
    IF is_problematic(metadata) /\ Contains(model_id, <<103, 112, 116, 45, 111, 115, 115, 45, 49, 50, 48, 98>>)   \* 'gpt-oss-120b'
    THEN [ made |-> <<>>,
           outcome |-> Return(TaskState(
               <<83, 75, 73, 80, 80, 69, 68, 58, 32, 77, 111, 100, 101, 108, 32, 99, 97, 110, 110, 111, 116, 32, 104, 97, 110, 100, 108, 101, 32, 116, 104, 105, 115, 32, 102, 111, 114, 109, 97, 116, 32, 114, 101, 113, 117, 101, 115, 116, 46>>)) ]   \* 'SKIPPED: Model cannot handle this format request.'
    ELSE [ made |-> <<[kwargs |-> metadata, outcome |-> inference]>>,
           outcome |->
               IF inference.kind = "return" THEN inference
               ELSE IF is_server_error(inference.value)
               THEN Return(TaskState(<<69, 82, 82, 79, 82, 58, 32>> \o inference.value.text))   \* 'ERROR: '
               ELSE inference ]

(***************************************************************************)
(* Calls of run_inference: a sample whose metadata is None, an empty dict  *)
(* or a dict with at most MaxIds instruction ids, a model id, and what the *)
(* model's inference does.                                                 *)
(***************************************************************************)
InstructionIds ==
    { <<100, 101, 116, 101, 99, 116, 97, 98, 108, 101, 95, 102, 111, 114, 109, 97, 116, 58, 106, 115, 111, 110, 95, 102, 111, 114, 109, 97, 116>>, <<100, 101, 116, 101, 99, 116, 97, 98, 108, 101, 95, 102, 111, 114, 109, 97, 116, 58, 120, 109, 108, 95, 102, 111, 114, 109, 97, 116>>,   \* 'detectable_format:json_format' | 'detectable_format:xml_format'
      <<112, 117, 110, 99, 116, 117, 97, 116, 105, 111, 110, 58, 110, 111, 95, 99, 111, 109, 109, 97>> }   \* 'punctuation:no_comma'

IdLists == UNION { [1..n -> InstructionIds] : n \in 0..MaxIds }

Metadatas ==
    { [type |-> "NoneType", items |-> <<>>], [type |-> "dict", items |-> <<>>] }
    \cup { [type |-> "dict", items |-> ("instruction_id_list" :> ids)] : ids \in IdLists }

ModelIds == { <<103, 112, 116, 45, 111, 115, 115, 45, 49, 50, 48, 98>>, <<111, 112, 101, 110, 97, 105, 47, 103, 112, 116, 45, 111, 115, 115, 45, 49, 50, 48, 98>>, <<71, 80, 84, 45, 79, 83, 83, 45, 49, 50, 48, 66>>, <<113, 119, 101, 110, 51, 45, 56, 98>> }   \* 'gpt-oss-120b' | 'openai/gpt-oss-120b' | 'GPT-OSS-120B' | 'qwen3-8b'

Inferences ==
    { Return(TaskState(<<111, 107>>)),   \* 'ok'
      Raise(Exc("InternalServerError", <<69, 114, 114, 111, 114, 32, 99, 111, 100, 101, 58, 32, 53, 48, 48>>)),   \* 'Error code: 500'
      Raise(Exc("InternalServerError", <<69, 114, 114, 111, 114, 32, 99, 111, 100, 101, 58, 32, 53, 48, 51>>)),   \* 'Error code: 503'
      Raise(Exc("RuntimeError", <<73, 110, 116, 101, 114, 110, 97, 108, 83, 101, 114, 118, 101, 114, 69, 114, 114, 111, 114, 58, 32, 111, 118, 101, 114, 108, 111, 97, 100, 101, 100>>)),   \* 'InternalServerError: overloaded'
      Raise(Exc("TimeoutError", <<116, 105, 109, 101, 100, 32, 111, 117, 116, 32, 97, 102, 116, 101, 114, 32, 49, 53, 48, 48, 32, 109, 115>>)),   \* 'timed out after 1500 ms'
      Raise(Exc("APIConnectionError", <<67, 111, 110, 110, 101, 99, 116, 105, 111, 110, 32, 101, 114, 114, 111, 114, 46>>)) }   \* 'Connection error.'

InitInference ==
    /\ call = "run_inference"
    /\ text = <<>>
    /\ language = <<>>
    /\ model_type = ""
    /\ pc = "call"
    /\ result = NoResult
    /\ calls = <<>>
    /\ frames = <<>>
    /\ client = <<>>
    /\ kwargs = <<>>
    /\ attempt = 0
    /\ sent = <<>>
    /\ args \in { [metadata |-> m, model_id |-> id] : m \in Metadatas, id \in ModelIds }
    /\ fs = <<>>

RunInference ==
    /\ pc = "call"
    /\ call = "run_inference"
    /\ \E inference \in Inferences :
           LET ran == run_inference(args.metadata, args.model_id, inference)
           IN  /\ sent' = sent \o ran.made
               /\ Ended(ran.outcome)
    /\ UNCHANGED <<call, text, language, model_type, calls, frames,
                   client, kwargs, attempt, args, fs>>

NextInference == RunInference

SpecInference == InitInference /\ [][NextInference]_vars

(***************************************************************************)
(* Properties of run_inference.                                            *)
(***************************************************************************)
\* the ids of the sample, none when the metadata is None or has no list
SampleIds(metadata) ==
    IF metadata.type = "dict" /\ HasKey(metadata.items, "instruction_id_list")
    THEN metadata.items["instruction_id_list"]
    ELSE <<>>

\* an instruction id of the sample mentions json_format or xml_format
MentionsFormat(metadata) ==
    \E i \in DOMAIN SampleIds(metadata) :
        \/ Contains(SampleIds(metadata)[i], <<106, 115, 111, 110, 95, 102, 111, 114, 109, 97, 116>>)   \* 'json_format'
        \/ Contains(SampleIds(metadata)[i], <<120, 109, 108, 95, 102, 111, 114, 109, 97, 116>>)   \* 'xml_format'

Skipped == MentionsFormat(args.metadata) /\ Contains(args.model_id, <<103, 112, 116, 45, 111, 115, 115, 45, 49, 50, 48, 98>>)   \* 'gpt-oss-120b'

\* C23: run_inference degrades instead of crashing.  When the sample's
\* instruction ids mention json_format or xml_format and the model id
\* contains 'gpt-oss-120b', the model is never invoked and a TaskState whose
\* only choice is the SKIPPED message is returned; when inference raises an
\* exception whose text contains '500' or 'InternalServerError', a TaskState
\* with an 'ERROR: ...' choice is returned; every other exception is
\* re-raised.
C23_DegradesInsteadOfCrashing ==
    (call = "run_inference" /\ pc # "call") =>
        IF Skipped
        THEN /\ sent = <<>>
             /\ pc = "done"
             /\ result = TaskState(<<83, 75, 73, 80, 80, 69, 68, 58, 32, 77, 111, 100, 101, 108, 32, 99, 97, 110, 110, 111, 116, 32, 104, 97, 110, 100, 108, 101, 32, 116, 104, 105, 115, 32, 102, 111, 114, 109, 97, 116, 32, 114, 101, 113, 117, 101, 115, 116, 46>>)   \* 'SKIPPED: Model cannot handle this format request.'
        ELSE /\ Len(sent) = 1
             /\ LET inference == sent[1].outcome
                    e == inference.value
                IN  IF inference.kind = "return"
                    THEN pc = "done" /\ result = inference.value
                    ELSE IF Contains(e.text, <<53, 48, 48>>) \/ Contains(e.text, <<73, 110, 116, 101, 114, 110, 97, 108, 83, 101, 114, 118, 101, 114, 69, 114, 114, 111, 114>>)   \* '500' | 'InternalServerError'
                    THEN /\ pc = "done"
                         /\ result = TaskState(<<69, 82, 82, 79, 82, 58, 32>> \o e.text)   \* 'ERROR: '
                    ELSE pc = "raised" /\ result = e

\* an xml_format sample of gpt-oss-120b was skipped without the model
C23_XmlSampleSkipped ==
    /\ call = "run_inference"
    /\ pc = "done"
    /\ Skipped
    /\ ~Contains(str_list(SampleIds(args.metadata)), <<106, 115, 111, 110, 95, 102, 111, 114, 109, 97, 116>>)   \* 'json_format'
    /\ sent = <<>>


(***************************************************************************)
(* find_json_file (extract_scores.py).  fs holds the entries of the        *)
(* benchmark directory: each has a name, is a directory or a file, and, a  *)
(* directory, holds the files at some paths below it.                      *)
(***************************************************************************)
\* entries of the benchmark directory
MaxEntries == 3

\* a Path, by its parts below the benchmark directory; None
Path(parts) == [type |-> "Path", parts |-> parts]

NoPath == [type |-> "NoneType", parts |-> <<>>]

\* str.isdigit on a name of ASCII characters
isdigit(name) == name # <<>> /\ \A i \in DOMAIN name : name[i] \in 48..57

\* a < b for str: the first differing code point decides, a proper prefix
\* is smaller
str_less(a, b) ==
    \E i \in 1..Len(b) :
        /\ \A k \in 1..(i - 1) : k <= Len(a) /\ a[k] = b[k]
        /\ \/ i = Len(a) + 1
           \/ i <= Len(a) /\ a[i] < b[i]

\* lines 59-62
timestamp_dirs(entries) ==
    { d \in entries : d.is_dir /\ (isdigit(d.name) \/ Contains(d.name, <<95>>)) }   \* '_'

\* variant: the first of the sorted directories
earliest_dir(dirs) ==
    CHOOSE d \in dirs : \A other \in dirs \ {d} : str_less(d.name, other.name)

\* lines 68-71: timestamp_dirs.sort(key=lambda x: x.name); timestamp_dirs[-1]
latest_dir(dirs) ==
    CHOOSE d \in dirs : \A other \in dirs \ {d} : str_less(other.name, d.name)

\* line 72: 'reports' / model_name / f'{benchmark_name}.json' below a directory
report_path(model_name, benchmark_name) ==
    <<<<114, 101, 112, 111, 114, 116, 115>>, model_name, benchmark_name \o <<46, 106, 115, 111, 110>>>>   \* 'reports' | '.json'

\* lines 55-76
find_json_file(entries, model_name, benchmark_name) ==
    IF timestamp_dirs(entries) = {} THEN NoPath
    ELSE LET latest == latest_dir(timestamp_dirs(entries))
             json_path == report_path(model_name, benchmark_name)
         IN  IF json_path \in latest.files
             THEN Path(<<latest.name>> \o json_path)
             ELSE NoPath

(***************************************************************************)
(* Calls of find_json_file: a benchmark directory of at most MaxEntries    *)
(* entries with different names, and a model.                              *)
(***************************************************************************)
EntryNames ==
    { <<50, 48, 50, 54, 48, 49, 48, 49>>, <<50, 48, 50, 52, 48, 49, 48, 49, 95, 49, 50, 48, 48, 48, 48>>, <<50, 48, 50, 53, 48, 49, 48, 49, 95, 48, 48, 48, 48, 48, 48>>, <<108, 111, 103, 115>>, <<111, 108, 100, 95, 114, 117, 110>> }   \* '20260101' | '20240101_120000' | '20250101_000000' | 'logs' | 'old_run'

ModelDirs == { <<109, 49>>, <<109, 50>> }   \* 'm1' | 'm2'

BenchmarkNames == { <<105, 102, 101, 118, 97, 108>> }   \* 'ifeval'

\* what a directory can hold
ReportFiles == { report_path(m, b) : m \in ModelDirs, b \in BenchmarkNames }

EntriesNamed(name) ==
    { [name |-> name, is_dir |-> FALSE, files |-> {}] }
    \cup { [name |-> name, is_dir |-> TRUE, files |-> f] : f \in SUBSET ReportFiles }

\* the directories of n entries named by names, one entry per name
RECURSIVE Listings(_)
Listings(names) ==
    IF names = {} THEN { {} }
    ELSE LET name == CHOOSE x \in names : TRUE
         IN  { {e} \cup rest : e \in EntriesNamed(name), rest \in Listings(names \ {name}) }

Directories ==
    UNION { Listings(names) :
                names \in { s \in SUBSET EntryNames : Cardinality(s) <= MaxEntries } }

InitFind ==
    /\ call = "find_json_file"
    /\ text = <<>>
    /\ language = <<>>
    /\ model_type = ""
    /\ pc = "call"
    /\ result = NoResult
    /\ calls = <<>>
    /\ frames = <<>>
    /\ client = <<>>
    /\ kwargs = <<>>
    /\ attempt = 0
    /\ sent = <<>>
    /\ args \in { [model_name |-> m, benchmark_name |-> b] :
                      m \in ModelDirs, b \in BenchmarkNames }
    /\ fs \in Directories

FindJsonFile ==
    /\ pc = "call"
    /\ call = "find_json_file"
    /\ result' = find_json_file(fs, args.model_name, args.benchmark_name)
    /\ pc' = "done"
    /\ UNCHANGED <<call, text, language, model_type, calls, frames,
                   client, kwargs, attempt, sent, args, fs>>

NextFind == FindJsonFile

SpecFind == InitFind /\ [][NextFind]_vars

(***************************************************************************)
(* Properties of find_json_file.                                           *)
(***************************************************************************)
\* the sub-directories whose name is all digits or contains '_'
TimestampNamed ==
    { d \in fs : d.is_dir /\ (isdigit(d.name) \/ \E i \in DOMAIN d.name : d.name[i] = 95) }

\* d has the greatest name of them in string order
Greatest(d) == \A other \in TimestampNamed \ {d} : str_less(other.name, d.name)

\* the report of the call below directory d
ReportIn(d) ==
    <<d.name, <<114, 101, 112, 111, 114, 116, 115>>, args.model_name, args.benchmark_name \o <<46, 106, 115, 111, 110>>>>   \* 'reports' | '.json'

HasReport(d) == Tail(ReportIn(d)) \in d.files

\* C24: find_json_file looks only in the latest timestamp directory: among
\* the sub-directories of the benchmark directory whose name is all digits
\* or contains '_', it takes the one with the greatest name in string order
\* and returns <dir>/reports/<model>/<benchmark>.json if that file exists,
\* else None; a report present only in an earlier timestamp directory is
\* never returned.
C24_LatestTimestampDirOnly ==
    (call = "find_json_file" /\ pc = "done") =>
        /\ \A d \in TimestampNamed :
               Greatest(d) =>
                   result = IF HasReport(d) THEN Path(ReportIn(d)) ELSE NoPath
        /\ TimestampNamed = {} => result = NoPath
        /\ \A d \in TimestampNamed : ~Greatest(d) => result # Path(ReportIn(d))

\* the report is in an earlier timestamp directory only: None is returned
C24_ReportOnlyInEarlierDir ==
    /\ call = "find_json_file"
    /\ pc = "done"
    /\ result = NoPath
    /\ \E d \in TimestampNamed : ~Greatest(d) /\ HasReport(d)
    /\ \E d \in TimestampNamed : Greatest(d) /\ isdigit(d.name)


(***************************************************************************)
(* generate_csv (extract_scores.py).  A score is a float with at most four *)
(* decimals, kept as its number of ten-thousandths; the file written is    *)
(* kept in fs as the sequence of its lines.                                *)
(***************************************************************************)
\* keys of the scores map
MaxScores == 2

\* lines 39-52
BENCHMARK_ORDER ==
    << <<97, 105, 109, 101, 50, 52>>, <<97, 105, 109, 101, 50, 52, 45, 116, 104>>, <<99, 111, 100, 101, 95, 115, 119, 105, 116, 99, 104, 105, 110, 103>>, <<108, 105, 118, 101, 95, 99, 111, 100, 101, 95, 98, 101, 110, 99, 104>>,   \* 'aime24' | 'aime24-th' | 'code_switching' | 'live_code_bench'
       <<108, 105, 118, 101, 95, 99, 111, 100, 101, 95, 98, 101, 110, 99, 104, 45, 116, 104>>, <<109, 97, 116, 104, 95, 53, 48, 48>>, <<109, 97, 116, 104, 95, 53, 48, 48, 45, 116, 104>>, <<111, 112, 101, 110, 116, 104, 97, 105, 101, 118, 97, 108>>,   \* 'live_code_bench-th' | 'math_500' | 'math_500-th' | 'openthaieval'
       <<104, 101, 108, 108, 97, 115, 119, 97, 103>>, <<104, 101, 108, 108, 97, 115, 119, 97, 103, 45, 116, 104>>, <<105, 102, 101, 118, 97, 108>>, <<105, 102, 101, 118, 97, 108, 45, 116, 104>> >>   \* 'hellaswag' | 'hellaswag-th' | 'ifeval' | 'ifeval-th'

\* lines 23-36: the display name of BENCHMARK_CONFIG[benchmark_folder]
BENCHMARK_CONFIG ==
    (<<97, 105, 109, 101, 50, 52>> :> <<65, 73, 77, 69, 50, 52>>)   \* 'aime24' | 'AIME24'
    @@ (<<97, 105, 109, 101, 50, 52, 45, 116, 104>> :> <<65, 73, 77, 69, 50, 52, 45, 84, 72>>)   \* 'aime24-th' | 'AIME24-TH'
    @@ (<<99, 111, 100, 101, 95, 115, 119, 105, 116, 99, 104, 105, 110, 103>> :> <<76, 97, 110, 103, 117, 97, 103, 101, 32, 65, 99, 99, 117, 114, 97, 99, 121, 32, 40, 67, 111, 100, 101, 32, 83, 119, 105, 116, 99, 104, 105, 110, 103, 41>>)   \* 'code_switching' | 'Language Accuracy (Code Switching)'
    @@ (<<108, 105, 118, 101, 95, 99, 111, 100, 101, 95, 98, 101, 110, 99, 104>> :> <<76, 105, 118, 101, 67, 111, 100, 101, 66, 101, 110, 99, 104>>)   \* 'live_code_bench' | 'LiveCodeBench'
    @@ (<<108, 105, 118, 101, 95, 99, 111, 100, 101, 95, 98, 101, 110, 99, 104, 45, 116, 104>> :> <<76, 105, 118, 101, 67, 111, 100, 101, 66, 101, 110, 99, 104, 45, 84, 72>>)   \* 'live_code_bench-th' | 'LiveCodeBench-TH'
    @@ (<<109, 97, 116, 104, 95, 53, 48, 48>> :> <<77, 65, 84, 72, 53, 48, 48>>)   \* 'math_500' | 'MATH500'
    @@ (<<109, 97, 116, 104, 95, 53, 48, 48, 45, 116, 104>> :> <<77, 65, 84, 72, 53, 48, 48, 45, 84, 72>>)   \* 'math_500-th' | 'MATH500-TH'
    @@ (<<111, 112, 101, 110, 116, 104, 97, 105, 101, 118, 97, 108>> :> <<79, 112, 101, 110, 84, 104, 97, 105, 69, 118, 97, 108>>)   \* 'openthaieval' | 'OpenThaiEval'
    @@ (<<104, 101, 108, 108, 97, 115, 119, 97, 103>> :> <<72, 101, 108, 108, 97, 83, 119, 97, 103>>)   \* 'hellaswag' | 'HellaSwag'
    @@ (<<104, 101, 108, 108, 97, 115, 119, 97, 103, 45, 116, 104>> :> <<72, 101, 108, 108, 97, 83, 119, 97, 103, 45, 84, 72>>)   \* 'hellaswag-th' | 'HellaSwag-TH'
    @@ (<<105, 102, 101, 118, 97, 108>> :> <<73, 70, 69, 118, 97, 108, 32, 40, 105, 110, 115, 116, 95, 108, 101, 118, 101, 108, 95, 108, 111, 111, 115, 101, 95, 97, 99, 99, 41>>)   \* 'ifeval' | 'IFEval (inst_level_loose_acc)'
    @@ (<<105, 102, 101, 118, 97, 108, 45, 116, 104>> :> <<73, 70, 69, 118, 97, 108, 45, 84, 72, 32, 40, 105, 110, 115, 116, 95, 108, 101, 118, 101, 108, 95, 108, 111, 111, 115, 101, 95, 97, 99, 99, 41>>)   \* 'ifeval-th' | 'IFEval-TH (inst_level_loose_acc)'

\* a float score of n ten-thousandths; None
Score(n) == [type |-> "float", num |-> n]

NoScore == [type |-> "NoneType", num |-> 0]

\* the decimal digits of n, at least width of them
RECURSIVE digits(_, _)
digits(n, width) ==
    IF n < 10 /\ width <= 1 THEN <<48 + n>>
    ELSE Append(digits(n \div 10, width - 1), 48 + (n % 10))

\* f"{score:.4f}" of a score of n ten-thousandths
format_4f(n) == digits(n \div 10000, 1) \o <<46>> \o digits(n % 10000, 4)   \* '.'

\* f"{avg:.10f}" of avg = total / count, total in ten-thousandths: four
\* decimals from the quotient, six from the remainder, rounded to nearest
format_10f(total, count) ==
    LET quotient == total \div count
        scaled == (total % count) * 1000000
        rest == (scaled \div count) + (IF 2 * (scaled % count) >= count THEN 1 ELSE 0)
    IN  format_4f(quotient) \o digits(rest, 6)

\* line 146: scores.get(benchmark_folder)
get_score(scores, benchmark_folder) ==
    IF benchmark_folder \in DOMAIN scores THEN scores[benchmark_folder] ELSE NoScore

\* variant: a score of 0 counts as no score
has_score_truthy(score) == score.type # "NoneType" /\ score.num # 0

\* line 148: score is not None
has_score(score) == score.type # "NoneType"

\* lines 144-154: the rows of the benchmarks from the i-th on
RECURSIVE benchmark_rows(_, _)
benchmark_rows(scores, i) ==
    IF i > Len(BENCHMARK_ORDER) THEN <<>>
    ELSE LET benchmark_folder == BENCHMARK_ORDER[i]
             display_name == BENCHMARK_CONFIG[benchmark_folder]
             score == get_score(scores, benchmark_folder)
         IN  << display_name \o <<44>> \o   \* ','
                   (IF has_score(score) THEN format_4f(score.num) ELSE <<78, 47, 65>>) >>   \* 'N/A'
                 \o benchmark_rows(scores, i + 1)

\* lines 142-152: valid_scores, from the i-th benchmark on
RECURSIVE valid_scores(_, _)
valid_scores(scores, i) ==
    IF i > Len(BENCHMARK_ORDER) THEN <<>>
    ELSE LET score == get_score(scores, BENCHMARK_ORDER[i])
         IN  (IF has_score(score) THEN <<score.num>> ELSE <<>>)
                 \o valid_scores(scores, i + 1)

\* sum(valid_scores)
RECURSIVE sum(_)
sum(values) == IF values = <<>> THEN 0 ELSE Head(values) + sum(Tail(values))

\* lines 157-161
average_row(valid) ==
    IF valid # <<>>
    THEN <<65, 86, 69, 82, 65, 71, 69, 44>> \o format_10f(sum(valid), Len(valid))   \* 'AVERAGE,'
    ELSE <<65, 86, 69, 82, 65, 71, 69, 44, 78, 47, 65>>   \* 'AVERAGE,N/A'

\* lines 137-165: the lines written to output_path
generate_csv(model_name, scores) ==
    << <<66, 101, 110, 99, 104, 109, 97, 114, 107, 115, 44>> \o model_name >>   \* 'Benchmarks,'
        \o benchmark_rows(scores, 1)
        \o << average_row(valid_scores(scores, 1)) >>

(***************************************************************************)
(* Calls of generate_csv: a scores map of at most MaxScores keys, a        *)
(* benchmark folder or another name, each with a score or None.            *)
(***************************************************************************)
ScoreKeys == { BENCHMARK_ORDER[i] : i \in DOMAIN BENCHMARK_ORDER } \cup { <<109, 109, 108, 117>> }   \* 'mmlu'

ScoreValues == { NoScore, Score(0), Score(3333), Score(8750), Score(10000) }

ScoreMaps ==
    UNION { [keys -> ScoreValues] :
                keys \in { k \in SUBSET ScoreKeys : Cardinality(k) <= MaxScores } }

InitCsv ==
    /\ call = "generate_csv"
    /\ text = <<>>
    /\ language = <<>>
    /\ model_type = ""
    /\ pc = "call"
    /\ result = NoResult
    /\ calls = <<>>
    /\ frames = <<>>
    /\ client = <<>>
    /\ kwargs = <<>>
    /\ attempt = 0
    /\ sent = <<>>
    /\ args \in { [model_name |-> <<109, 49>>, scores |-> s] : s \in ScoreMaps }   \* 'm1'
    /\ fs = <<>>

GenerateCsv ==
    /\ pc = "call"
    /\ call = "generate_csv"
    /\ fs' = generate_csv(args.model_name, args.scores)
    /\ pc' = "done"
    /\ UNCHANGED <<call, text, language, model_type, calls, frames,
                   client, kwargs, attempt, sent, args, result>>

NextCsv == GenerateCsv

SpecCsv == InitCsv /\ [][NextCsv]_vars

(***************************************************************************)
(* Properties of generate_csv.                                             *)
(***************************************************************************)
StartsWith(s, prefix) ==
    Len(s) >= Len(prefix) /\ SubSeq(s, 1, Len(prefix)) = prefix

\* the benchmarks of BENCHMARK_ORDER, by position, that have a score
Scored ==
    { i \in DOMAIN BENCHMARK_ORDER :
          /\ BENCHMARK_ORDER[i] \in DOMAIN args.scores
          /\ args.scores[BENCHMARK_ORDER[i]].type # "NoneType" }

RECURSIVE TotalOf(_)
TotalOf(positions) ==
    IF positions = {} THEN 0
    ELSE LET i == CHOOSE x \in positions : TRUE
         IN  args.scores[BENCHMARK_ORDER[i]].num + TotalOf(positions \ {i})

\* C25: generate_csv writes a header line, then exactly one row per
\* benchmark in the fixed BENCHMARK_ORDER whatever the scores map holds,
\* then one AVERAGE row; a benchmark with no score is written as N/A and
\* left out of the average, and the AVERAGE row is N/A exactly when no
\* benchmark has a score.
C25_OneRowPerBenchmark ==
    (call = "generate_csv" /\ pc = "done") =>
        /\ Len(fs) = Len(BENCHMARK_ORDER) + 2
        /\ fs[1] = <<66, 101, 110, 99, 104, 109, 97, 114, 107, 115, 44>> \o args.model_name   \* 'Benchmarks,'
        /\ \A i \in DOMAIN BENCHMARK_ORDER :
               LET name == BENCHMARK_CONFIG[BENCHMARK_ORDER[i]] \o <<44>>   \* ','
               IN  /\ StartsWith(fs[i + 1], name)
                   /\ (fs[i + 1] = name \o <<78, 47, 65>>) = (i \notin Scored)   \* 'N/A'
        /\ (fs[Len(fs)] = <<65, 86, 69, 82, 65, 71, 69, 44, 78, 47, 65>>) = (Scored = {})   \* 'AVERAGE,N/A'
        /\ Scored # {} =>
               fs[Len(fs)] = <<65, 86, 69, 82, 65, 71, 69, 44>>   \* 'AVERAGE,'
                   \o format_10f(TotalOf(Scored), Cardinality(Scored))

\* a score of 0 for one benchmark and a score under a name that is no
\* benchmark: the 0 is a row and the whole average
C25_ZeroScoreAveraged ==
    /\ call = "generate_csv"
    /\ pc = "done"
    /\ Cardinality(Scored) = 1
    /\ TotalOf(Scored) = 0
    /\ \E k \in DOMAIN args.scores :
           k \notin { BENCHMARK_ORDER[i] : i \in DOMAIN BENCHMARK_ORDER }
               /\ args.scores[k].num = 10000
    /\ fs[Len(fs)] = <<65, 86, 69, 82, 65, 71, 69, 44, 48, 46, 48, 48, 48, 48, 48, 48, 48, 48, 48, 48>>   \* 'AVERAGE,0.0000000000'

=============================================================================
